---- MODULE Spec2Model ----
(***************************************************************************)
(* Synapse exchange (CoreServer): jobs, escrow/stake ledger, reputation,   *)
(* deadline timers and the handlers that act on them.                      *)
(*                                                                         *)
(* The server is modelled with the persistence port enabled                *)
(* (new CoreServer(port, {db})): every `await` of a persistence or         *)
(* evidence call is a suspension point at which any other handler, System  *)
(* call or timer callback may run.  A handler is therefore a sequence of   *)
(* steps; the part of it that has not run yet is a record in `inflight`.   *)
(***************************************************************************)
EXTENDS Integers, FiniteSets, Sequences, Bags, TLC

\* ---------------------------------------------------------------- bounds
MaxAwards == 1          \* awards (client or System) in one behaviour
MaxInFlight == 2        \* handlers suspended at an await at the same time
MaxReviews == 2         \* review messages accepted in one behaviour
MaxOffers == 3          \* negotiation messages (counters and decisions) accepted in one behaviour
MaxDbErrors == 1      \* persistence failures of the auth handshake per connection

\* ------------------------------------------------------- program constants
DEFAULT_STARTING_CREDITS == 1000
StakePctNum == 5        \* DEFAULT_WORKER_STAKE_PCT = 0.05 = 5/100
SlashPctNum == 50       \* DEFAULT_WORKER_SLASH_PCT = 0.5 = 50/100
BaseStakeCap == 200
StakeCap == 500
DEFAULT_NEGOTIATION_MAX_ROUNDS == 3

\* ------------------------------------------------------------ input sets
Agents == {"req", "w1", "w2"}
JobIds == {"j1"}
None == "none"
Posters == {"req"}                \* agents that send post_job
Bidders == {"w1"}                 \* agents that send bid
Workers == {"w1", "w2"}           \* agents a job can be assigned to
Budgets == {100}                  \* post_job.budget
BidPrices == {10}                 \* bid.price
UpfrontPcts == {0, 20}            \* payload.acceptedTerms.upfrontPct, in percent (0 = no acceptedTerms)
BidHalves == {20, 200, 201, 202}  \* bid.price in half credits: 10, 100, 100.5 and 101
FundsCredits == {5, 105}          \* systemEnsureAccount.startingCredits
TermsMaxRevisions == 1            \* payload.acceptedTerms.maxRevisions of the jobs that carry terms
AuthAgents == {"req", "w1"}       \* agents that connect and authenticate
EnsureAgents == {"req", "w1"}     \* identities created by systemEnsureAccount
EnsureCredits == {1000}           \* systemEnsureAccount.startingCredits
\* systemEnsureAccount{agentName, startingCredits} in the runs that call it again
EnsureCalls == {<<"a", 1000>>, <<"b", 0>>}
Decisions == {"accept", "reject", "changes"}
Conns == {"s1", "s2"}             \* websocket connections
MaxRoundsEnv == {2, 3}            \* SYNAPSE_NEGOTIATION_MAX_ROUNDS: 2 in tests/negotiation.test.ts, default 3
DealBudgets == {25, 100}          \* post_job.budget in the negotiation runs
DealBidPrices == {10, 80}         \* bid.price in the negotiation runs
DealBid(budget) == IF budget = 25 THEN 10 ELSE 80   \* the bid made on a job of that budget
OfferPrices == {70}               \* counter_offer.price
CounterPrices == {90}             \* worker_counter.price
OfferPcts == {20}                 \* terms.upfrontPct of a counter, in percent
OfferDecisions == {"accept", "reject"}
OfferWorkers == {"w1", "w2"}      \* workers that bid and that a counter_offer can target
JobKinds == {"simple", "coding"}  \* post_job.kind
Evaluations == {"success", "test_failed", "execution_error"}   \* what evaluateSubmission returns
Nonces == {"n1", "n2"}            \* randomNonceB64() values
Keys == {"k_req", "k_w1"}         \* public keys (each names its key pair)
AgentNames == {"", "a"}           \* auth.agentName

VARIABLES
    ledger,          \* this.ledger: agentId -> {credits, locked}
    reputation,      \* this.reputation: agentId -> {completed, failed}
    jobs,            \* this.jobs: jobId -> JobState
    jobTimeouts,     \* this.jobTimeouts: jobId -> timer (with the workerId its callback captured)
    inflight,        \* bag of suspended handler continuations
    granted,         \* history: sum of the starting-credit grants made so far
    nAwards,         \* history: number of awards applied so far
    nReviews,        \* history: number of review messages accepted so far
    settled,         \* history: per job, settlements applied to the current award
    failPath,        \* history: per job, outcome of the exchange's own failure paths
    lastOp,          \* history: per job, the last transition applied (award, submit, changes, other)
    sessions,        \* this.sessions: connection -> {challengeNonceB64, authed, agentId}, with history fields
    maxRounds,       \* process.env.SYNAPSE_NEGOTIATION_MAX_ROUNDS as parseIntEnv reads it
    sent,            \* the replies and broadcasts of the last step that sent any (errors, authed, job_completed, negotiation_ended)
    atAward,         \* history: per job, the credits of requester and worker just before the current award
    nOffers,         \* history: number of negotiation messages accepted so far
    ledgerUpdates,   \* history: per agent, the last ledger_update{credits, locked} emitted by sendLedgerUpdate
    dbReputation,    \* the reputation table of the database: agentId -> {completed, failed}
    agentMeta,       \* agentId -> the display name last given for the agent (None: no entry)
    awardCap         \* the number of awards the run goes up to (fixed by Init)

vars == <<ledger, reputation, jobs, jobTimeouts, inflight, granted, nAwards, nReviews, settled, failPath, lastOp,
          sessions, maxRounds, sent, atAward, nOffers, ledgerUpdates, dbReputation, agentMeta, awardCap>>

\* ---------------------------------------------------------------- helpers
Max(a, b) == IF a >= b THEN a ELSE b
Min(a, b) == IF a <= b THEN a ELSE b
CeilDiv(a, b) == (a + b - 1) \div b

NoAccount == [has |-> FALSE, credits |-> 0, locked |-> 0]
\* payload.negotiation when no offer was made yet
NoNegotiation == [workerId |-> None, price |-> 0, status |-> "none", round |-> 0, pct |-> 0, history |-> <<>>]
\* upfrontPct is payload.acceptedTerms.upfrontPct in percent (0: no upfront),
\* acceptedPrice is payload.acceptedPrice (0: not recorded), autoVerify is
\* payload.autoVerify ("ok", the failure reason, or "none" when absent)
NoJob == [status |-> "none", requesterId |-> None, workerId |-> None, budget |-> 0,
          bids |-> {}, lockedBudget |-> 0, lockedStake |-> 0, paidUpfront |-> 0,
          upfrontPct |-> 0, negotiation |-> NoNegotiation, acceptedPrice |-> 0,
          kind |-> "simple", autoVerify |-> "none"]
\* buildAuthString: the canonical text both sides sign and verify
buildAuthString(nonce, agentName, publicKey) == <<"SYNAPSE_AUTH_V1", nonce, agentName, publicKey>>
\* a signature is determined by the key pair that made it and the text it covers
signAuth(key, nonce, agentName, publicKey) ==
    [signer |-> key, text |-> buildAuthString(nonce, agentName, publicKey)]
NoAuthMsg == [nonce |-> None, agentName |-> "", publicKey |-> None,
              signature |-> [signer |-> None, text |-> <<>>]]
\* a session: open (present in this.sessions), challengeNonceB64 as nonce,
\* authed, agentId; history: via is the auth message that authenticated it,
\* dbErrors the number of its handshakes that failed on persistence
\* credits the credits of the authed reply that handleAuth built before its await
\* last (history) the agent the connection was bound to when it closed
\* reconnect (history) a connection of the same agent had closed before this auth
NoSession == [open |-> FALSE, authed |-> FALSE, agentId |-> None, nonce |-> None,
              via |-> NoAuthMsg, dbErrors |-> 0, credits |-> 0, last |-> None,
              reconnect |-> FALSE]
NoTimer == [live |-> FALSE, workerId |-> None]
NoOutcome == [path |-> "none", outcome |-> "none"]
NoSnapshot == [requester |-> 0, worker |-> 0]
NoUpdate == [sent |-> FALSE, credits |-> 0, locked |-> 0]

HasAcct(l, a) == a \in Agents /\ l[a].has
Spendable(l, a) == l[a].credits - l[a].locked

AddLocked(l, a, d) == IF HasAcct(l, a) THEN [l EXCEPT ![a].locked = @ + d] ELSE l
AddCredits(l, a, d) == IF HasAcct(l, a) THEN [l EXCEPT ![a].credits = @ + d] ELSE l

\* sendLedgerUpdate(agentId) with the ledger being l: the update carries the
\* account's credits and locked as they are at the call
sendLedgerUpdate(u, l, a) ==
    IF HasAcct(l, a) THEN [u EXCEPT ![a] = [sent |-> TRUE, credits |-> l[a].credits, locked |-> l[a].locked]]
    ELSE u

\* a reply or broadcast: error{code} to a connection (wrote: the handler had
\* written server state before it), authed, job_completed{paid: n},
\* negotiation_ended{reason: code, round: n}, offer_made{workerId: code, price: n},
\* counter_made{workerId: code, round: n}, offer_response{decision: code}; "unhandled_rejection" is not a
\* message but the rejection of a handler's promise, which nothing catches
Msg(type, to, j, code, n, wrote) == [type |-> type, to |-> to, job |-> j, code |-> code, n |-> n, wrote |-> wrote]

Cont(pc, conn, j, arg, path) ==
    [pc |-> pc, conn |-> conn, job |-> j, arg |-> arg, path |-> path,
     prev |-> NoNegotiation, offer |-> NoNegotiation, wrote |-> FALSE]
\* a suspended negotiation handler: prev is the payload.negotiation it read
\* before its await, offer the counter or decision it is processing, wrote
\* whether it has changed server state so far
NegCont(pc, conn, j, w, prev, offer, wrote) ==
    [pc |-> pc, conn |-> conn, job |-> j, arg |-> w, path |-> "none",
     prev |-> prev, offer |-> offer, wrote |-> wrote]
Suspend(h) == inflight (+) SetToBag({h})
Resume(h, next) == (inflight (-) SetToBag({h})) (+) next
NoCont == EmptyBag
One(h) == SetToBag({h})
CanStart == BagCardinality(inflight) < MaxInFlight
Quiescent == inflight = EmptyBag

\* repScore(rep) >= num/den, in exact arithmetic
ScoreAtLeast(rep, num, den) == (rep.completed + 1) * den >= num * (rep.completed + rep.failed + 2)

workerStakeForJob(budget) == Max(0, Min(BaseStakeCap, (budget * StakePctNum) \div 100))

\* mult as halves: 0.5 -> 1, 1 -> 2, 1.5 -> 3, 2 -> 4
StakeMultHalves(rep) ==
    IF ScoreAtLeast(rep, 3, 4) THEN 1
    ELSE IF ScoreAtLeast(rep, 3, 5) THEN 2
    ELSE IF ScoreAtLeast(rep, 9, 20) THEN 3
    ELSE 4

workerStakeFor(budget, rep) ==
    LET base == workerStakeForJob(budget) IN
    IF base <= 0 THEN 0
    ELSE Max(0, Min(StakeCap, (base * StakeMultHalves(rep)) \div 2))

\* mutant: the slash is rounded down
slashForStakeFloor(stake) == Max(0, Min(stake, (stake * SlashPctNum) \div 100))

slashForStake(stake) == Max(0, Min(stake, CeilDiv(stake * SlashPctNum, 100)))

upfrontFor(lockedBudget, pct) == Max(0, Min(lockedBudget, (lockedBudget * pct) \div 100))

RepOf(rep, a) == IF a \in Agents THEN rep[a] ELSE [completed |-> 0, failed |-> 0]

\* mutant: a completion is counted as a failure
bumpReputationSwapped(rep, a, outcome) ==
    IF a \notin Agents THEN rep
    ELSE IF outcome = "completed" THEN [rep EXCEPT ![a].failed = @ + 1]
    ELSE [rep EXCEPT ![a].completed = @ + 1]

bumpReputation(rep, a, outcome) ==
    IF a \notin Agents THEN rep
    ELSE IF outcome = "completed" THEN [rep EXCEPT ![a].completed = @ + 1]
    ELSE [rep EXCEPT ![a].failed = @ + 1]

\* db.upsertReputation: insert, or on conflict overwrite both counters of the row
upsertReputation(d, a, row) == IF a \in Agents THEN [d EXCEPT ![a] = row] ELSE d

disarmTimeout(t, j) == [t EXCEPT ![j] = NoTimer]

\* mutant: the old timer is cleared but no new one is registered
armTimeoutNotRegistered(t, js, j) == disarmTimeout(t, j)

armTimeout(t, js, j) ==
    IF js[j].status # "awarded" \/ js[j].workerId = None
    THEN disarmTimeout(t, j)
    ELSE [t EXCEPT ![j] = [live |-> TRUE, workerId |-> js[j].workerId]]

\* ------------------------------------------------------------------- Init
Start ==
    /\ ledger = [a \in Agents |-> NoAccount]
    /\ reputation = [a \in Agents |-> [completed |-> 0, failed |-> 0]]
    /\ jobs = [j \in JobIds |-> NoJob]
    /\ jobTimeouts = [j \in JobIds |-> NoTimer]
    /\ inflight = EmptyBag
    /\ granted = 0
    /\ nAwards = 0
    /\ nReviews = 0
    /\ settled = [j \in JobIds |-> 0]
    /\ failPath = [j \in JobIds |-> NoOutcome]
    /\ lastOp = [j \in JobIds |-> "none"]
    /\ sessions = [s \in Conns |-> NoSession]
    /\ sent = {}
    /\ atAward = [j \in JobIds |-> NoSnapshot]
    /\ nOffers = 0
    /\ ledgerUpdates = [a \in Agents |-> NoUpdate]
    /\ dbReputation = [a \in Agents |-> [completed |-> 0, failed |-> 0]]
    /\ agentMeta = [a \in Agents |-> None]

Init == Start /\ maxRounds = DEFAULT_NEGOTIATION_MAX_ROUNDS /\ awardCap = MaxAwards

\* --------------------------------------------------------------- accounts
\* handleAuth: a verified auth creates the ledger account on first sight.
handleAuth(a) ==
    /\ ~ledger[a].has
    /\ ledger' = [ledger EXCEPT ![a] = [has |-> TRUE, credits |-> DEFAULT_STARTING_CREDITS, locked |-> 0]]
    /\ granted' = granted + DEFAULT_STARTING_CREDITS
    /\ dbReputation' = upsertReputation(dbReputation, a, [completed |-> 0, failed |-> 0])
    /\ agentMeta' = [agentMeta EXCEPT ![a] = "a"]
    /\ UNCHANGED <<inflight, reputation, jobs, jobTimeouts, nAwards, nReviews, settled, failPath, lastOp, sessions, maxRounds, sent, atAward, nOffers, ledgerUpdates, awardCap>>

\* mutant: the account is written whether or not the agent has one
EnsureFindsAccountNever(l, a) == FALSE

\* `const existing = this.ledger.get(args.agentId)` of systemEnsureAccount
EnsureFindsAccount(l, a) == l[a].has

\* systemEnsureAccount{agentId: a, agentName: name, startingCredits: c}
systemEnsureAccount(a, name, c) ==
    /\ IF EnsureFindsAccount(ledger, a)
       THEN UNCHANGED <<ledger, granted, reputation>>
       ELSE /\ ledger' = [ledger EXCEPT ![a] = [has |-> TRUE, credits |-> c, locked |-> 0]]
            /\ granted' = granted + c
            /\ reputation' = [reputation EXCEPT ![a] = [completed |-> 0, failed |-> 0]]
    /\ agentMeta' = [agentMeta EXCEPT ![a] = name]
    /\ dbReputation' = upsertReputation(dbReputation, a, reputation'[a])
    /\ UNCHANGED <<inflight, jobs, jobTimeouts, nAwards, nReviews, settled, failPath, lastOp, sessions, maxRounds, sent, atAward, nOffers, ledgerUpdates, awardCap>>

\* ------------------------------------------------------------ post and bid
NewJob(r, b, pct) ==
    [status |-> "open", requesterId |-> r, workerId |-> None, budget |-> b,
     bids |-> {}, lockedBudget |-> 0, lockedStake |-> 0, paidUpfront |-> 0,
     upfrontPct |-> pct, negotiation |-> NoNegotiation, acceptedPrice |-> 0,
     kind |-> "simple", autoVerify |-> "none"]

\* handlePostJob and systemCreateJob apply the same checks and the same insert
CreateJob(j, r, b, pct, conn) ==
    /\ jobs[j].status = "none"
    /\ ledger[r].has
    /\ Spendable(ledger, r) >= b
    /\ jobs' = [jobs EXCEPT ![j] = NewJob(r, b, pct)]
    /\ UNCHANGED <<inflight, ledger, reputation, jobTimeouts, granted, nAwards, nReviews, settled, failPath, lastOp, sessions, maxRounds, sent, atAward, nOffers, ledgerUpdates, dbReputation, agentMeta, awardCap>>

handlePostJob(j, r, b, pct) == CreateJob(j, r, b, pct, r)

systemCreateJob(j, r, b, pct) == CreateJob(j, r, b, pct, "system")

BidCheckAnyPrice(j, halves) ==
    IF jobs[j].status = "none" THEN "job_not_found"
    ELSE IF jobs[j].status # "open" THEN "job_not_open"
    ELSE "ok"

\* handleBid's checks, in the order of the code; msg.price is given in half credits
BidCheck(j, halves) ==
    IF jobs[j].status = "none" THEN "job_not_found"
    ELSE IF jobs[j].status # "open" THEN "job_not_open"
    ELSE IF halves > 2 * jobs[j].budget THEN "bid_over_budget"
    ELSE "ok"

\* bid with a price that need not be a whole number; the book takes Math.floor(msg.price)
handleBidPrice(j, a, halves) ==
    LET bid == [bidderId |-> a, price |-> halves \div 2] IN    \* Math.floor(msg.price)
    /\ ledger[a].has
    /\ BidCheck(j, halves) = "ok"
    /\ bid \notin jobs[j].bids
    /\ jobs' = [jobs EXCEPT ![j].bids = @ \cup {bid}]
    /\ UNCHANGED <<inflight, ledger, reputation, jobTimeouts, granted, nAwards, nReviews, settled, failPath, lastOp, sessions, maxRounds, sent, atAward, nOffers, ledgerUpdates, dbReputation, agentMeta, awardCap>>

\* bid with a whole price
handleBid(j, a, p) == handleBidPrice(j, a, 2 * p)

\* ------------------------------------------------------------------ award
\* the checks of handleAward / awardJob in the order the code makes them:
\* the error code sent to errWs, or "ok".  price is agreedPrice ?? job.budget.
AwardCheck(j, r, w, price) ==
    LET job == jobs[j]
        settledBudget == Max(1, price)
        stake == workerStakeFor(job.budget, RepOf(reputation, w))
    IN
    IF job.status = "none" THEN "job_not_found"
    ELSE IF job.requesterId # r THEN "not_job_owner"
    ELSE IF job.status # "open" THEN "job_not_open"
    ELSE IF ~(\E b \in job.bids : b.bidderId = w) THEN "worker_has_no_bid"
    ELSE IF settledBudget > job.budget THEN "agreed_price_over_budget"
    ELSE IF ~HasAcct(ledger, r) THEN "no_ledger_account"
    ELSE IF Spendable(ledger, r) < settledBudget THEN "insufficient_credits"
    ELSE IF ~HasAcct(ledger, w) THEN "worker_no_ledger_account"
    ELSE IF stake > 0 /\ Spendable(ledger, w) < stake THEN "worker_insufficient_stake"
    ELSE "ok"

\* the writes of awardJob before its first await: escrow lock, stake lock, status
AwardApply(j, w, price) ==
    LET job == jobs[j]
        r == job.requesterId
        settledBudget == Max(1, price)
        stake == workerStakeFor(job.budget, RepOf(reputation, w))
    IN
    /\ ledger' = AddLocked(AddLocked(ledger, r, settledBudget), w, stake)
    /\ jobs' = [jobs EXCEPT ![j].lockedBudget = settledBudget, ![j].status = "awarded",
                            ![j].workerId = w, ![j].lockedStake = stake]
    /\ nAwards' = nAwards + 1
    /\ settled' = [settled EXCEPT ![j] = 0]
    /\ lastOp' = [lastOp EXCEPT ![j] = "award"]
    /\ atAward' = [atAward EXCEPT ![j] = [requester |-> ledger[r].credits, worker |-> ledger[w].credits]]
    /\ ledgerUpdates' = IF stake > 0 THEN sendLedgerUpdate(ledgerUpdates, ledger', w) ELSE ledgerUpdates

\* awardJob, up to its first await.
awardJob(j, w, price, conn) ==
    /\ CanStart
    /\ nAwards < awardCap
    /\ AwardCheck(j, jobs[j].requesterId, w, price) = "ok"
    /\ AwardApply(j, w, price)
    /\ inflight' = Suspend(Cont("award_ev", conn, j, w, "none"))
    /\ UNCHANGED <<reputation, jobTimeouts, granted, nReviews, failPath, sessions, maxRounds, sent, nOffers, dbReputation, agentMeta, awardCap>>

\* handleAward: the session's agent must be the job's requester (not_job_owner otherwise)
handleAward(j, a, w) ==
    /\ jobs[j].requesterId = a
    /\ awardJob(j, w, jobs[j].budget, a)

\* awardJob resumed after the award evidence: upfront payment, then the timer
awardAfterEvidence(h) ==
    LET j == h.job
        w == h.arg
        job == jobs[j]
        r == job.requesterId
        upfront == IF job.upfrontPct > 0 THEN upfrontFor(job.lockedBudget, job.upfrontPct) ELSE 0
    IN
    /\ h.pc = "award_ev"
    /\ IF upfront > 0
       THEN /\ ledger' = AddCredits(AddCredits(AddLocked(ledger, r, -upfront), r, -upfront), w, upfront)
            /\ jobs' = [jobs EXCEPT ![j].paidUpfront = upfront]
            /\ ledgerUpdates' = sendLedgerUpdate(sendLedgerUpdate(ledgerUpdates, ledger', r), ledger', w)
            /\ inflight' = Resume(h, One(Cont("award_up", h.conn, j, w, "none")))
            /\ UNCHANGED jobTimeouts
       ELSE /\ jobTimeouts' = armTimeout(jobTimeouts, jobs, j)
            /\ inflight' = Resume(h, NoCont)
            /\ UNCHANGED <<ledger, jobs, ledgerUpdates>>
    /\ UNCHANGED <<reputation, granted, nAwards, nReviews, settled, failPath, lastOp, sessions, maxRounds, sent, atAward, nOffers, dbReputation, agentMeta, awardCap>>

\* awardJob resumed after the upfront evidence: the timer
awardAfterUpfront(h) ==
    /\ h.pc = "award_up"
    /\ jobTimeouts' = armTimeout(jobTimeouts, jobs, h.job)
    /\ inflight' = Resume(h, NoCont)
    /\ UNCHANGED <<ledger, reputation, jobs, granted, nAwards, nReviews, settled, failPath, lastOp, sessions, maxRounds, sent, atAward, nOffers, ledgerUpdates, dbReputation, agentMeta, awardCap>>

\* systemAwardJob, up to its await: no bid check, always job.budget, no upfront
systemAwardJob(j, w) ==
    LET job == jobs[j]
        r == job.requesterId
        stake == workerStakeFor(job.budget, RepOf(reputation, w))
    IN
    /\ CanStart
    /\ nAwards < awardCap
    /\ job.status = "open"
    /\ HasAcct(ledger, r)
    /\ Spendable(ledger, r) >= job.budget
    /\ HasAcct(ledger, w)
    /\ ~(stake > 0 /\ Spendable(ledger, w) < stake)
    /\ ledger' = AddLocked(AddLocked(ledger, r, job.budget), w, stake)
    /\ jobs' = [jobs EXCEPT ![j].lockedBudget = job.budget, ![j].status = "awarded",
                            ![j].workerId = w, ![j].lockedStake = stake]
    /\ nAwards' = nAwards + 1
    /\ settled' = [settled EXCEPT ![j] = 0]
    /\ lastOp' = [lastOp EXCEPT ![j] = "award"]
    /\ atAward' = [atAward EXCEPT ![j] = [requester |-> ledger[r].credits, worker |-> ledger[w].credits]]
    /\ inflight' = Suspend(Cont("sysaward_ev", "system", j, w, IF stake > 0 THEN "stake" ELSE "none"))
    /\ UNCHANGED <<reputation, jobTimeouts, granted, nReviews, failPath, sessions, maxRounds, sent, nOffers, ledgerUpdates, dbReputation, agentMeta, awardCap>>

\* systemAwardJob resumed after the award evidence: the timer, then the
\* worker's ledger_update when the stake it computed (path) was positive
systemAwardAfterEvidence(h) ==
    /\ h.pc = "sysaward_ev"
    /\ jobTimeouts' = armTimeout(jobTimeouts, jobs, h.job)
    /\ ledgerUpdates' = IF h.path = "stake" THEN sendLedgerUpdate(ledgerUpdates, ledger, h.arg) ELSE ledgerUpdates
    /\ inflight' = Resume(h, NoCont)
    /\ UNCHANGED <<ledger, reputation, jobs, granted, nAwards, nReviews, settled, failPath, lastOp, sessions, maxRounds, sent, atAward, nOffers, dbReputation, agentMeta, awardCap>>

\* ----------------------------------------------------------------- submit
\* handleSubmit's checks, in the order of the code
SubmitCheck(j, a) ==
    IF jobs[j].status = "none" THEN "job_not_found"
    ELSE IF jobs[j].status # "awarded" THEN "job_not_awarded"
    ELSE IF jobs[j].workerId # a THEN "not_assigned_worker"
    ELSE "ok"

\* handleReview's checks, in the order of the code
ReviewCheck(j, a) ==
    IF jobs[j].status = "none" THEN "job_not_found"
    ELSE IF jobs[j].requesterId # a THEN "not_job_owner"
    ELSE IF jobs[j].status # "in_review" THEN "job_not_in_review"
    ELSE IF jobs[j].workerId = None THEN "job_missing_worker"
    ELSE "ok"

handleSubmit(j, a) ==
    /\ ledger[a].has
    /\ SubmitCheck(j, a) = "ok"
    /\ jobTimeouts' = disarmTimeout(jobTimeouts, j)
    /\ jobs' = [jobs EXCEPT ![j].status = "in_review"]
    /\ lastOp' = [lastOp EXCEPT ![j] = "submit"]
    /\ UNCHANGED <<inflight, ledger, reputation, granted, nAwards, nReviews, settled, failPath, sessions, maxRounds, sent, atAward, nOffers, ledgerUpdates, dbReputation, agentMeta, awardCap>>

\* handlePostJob of a job of the given kind
handlePostJobKind(j, r, b, pct, kind) ==
    /\ jobs[j].status = "none"
    /\ ledger[r].has
    /\ Spendable(ledger, r) >= b
    /\ jobs' = [jobs EXCEPT ![j] = [NewJob(r, b, pct) EXCEPT !.kind = kind]]
    /\ UNCHANGED <<inflight, ledger, reputation, jobTimeouts, granted, nAwards, nReviews, settled, failPath, lastOp, sessions, maxRounds, sent, atAward, nOffers, ledgerUpdates, dbReputation, agentMeta, awardCap>>

\* handleSubmit up to its first await, with what follows the awaits kept as a
\* continuation
handleSubmitAwait(j, a) ==
    /\ CanStart
    /\ ledger[a].has
    /\ SubmitCheck(j, a) = "ok"
    /\ jobTimeouts' = disarmTimeout(jobTimeouts, j)
    /\ jobs' = [jobs EXCEPT ![j].status = "in_review"]
    /\ lastOp' = [lastOp EXCEPT ![j] = "submit"]
    /\ inflight' = Suspend(Cont("submit_ev", a, j, a, "none"))
    /\ UNCHANGED <<ledger, reputation, granted, nAwards, nReviews, settled, failPath, sessions, maxRounds, sent, atAward, nOffers, ledgerUpdates, dbReputation, agentMeta, awardCap>>

\* mutant: a passing evaluation completes the job
AutoVerifySettles(job, e) ==
    IF job.kind = "coding"
    THEN [job EXCEPT !.autoVerify = IF e = "success" THEN "ok" ELSE e,
                     !.status = IF e = "success" THEN "completed" ELSE @]
    ELSE job

\* job.payload = {...job.payload, autoVerify} for a coding job
AutoVerify(job, e) ==
    IF job.kind = "coding"
    THEN [job EXCEPT !.autoVerify = IF e = "success" THEN "ok" ELSE e]
    ELSE job

\* handleSubmit resumed after the submit evidence and updateJob: the
\* evaluator's verdict e is attached to a coding job
submitAfterPersist(h, e) ==
    /\ h.pc = "submit_ev"
    /\ jobs' = [jobs EXCEPT ![h.job] = AutoVerify(@, e)]
    /\ inflight' = Resume(h, NoCont)
    /\ UNCHANGED <<ledger, reputation, jobTimeouts, granted, nAwards, nReviews, settled, failPath, lastOp, sessions, maxRounds, sent, atAward, nOffers, ledgerUpdates, dbReputation, agentMeta, awardCap>>

\* ------------------------------------------------------------- settlement
SettleOk(j, w) == jobs[j].status \in {"awarded", "in_review"} /\ jobs[j].workerId = w

\* systemCompleteJob throws ledger_missing after it has set the status
CompleteLedgerMissing(j, w) == ~(HasAcct(ledger, jobs[j].requesterId) /\ HasAcct(ledger, w))

\* mutant: the whole locked budget is paid at completion, upfront included
CompleteLedgerPaysTotal(l, job, w) ==
    LET r == job.requesterId
        remainder == job.lockedBudget
    IN AddLocked(AddCredits(AddCredits(AddLocked(l, r, -remainder), r, -remainder), w, remainder),
                 w, -job.lockedStake)

CompleteLedger(l, job, w) ==
    LET r == job.requesterId
        remainder == Max(0, job.lockedBudget - job.paidUpfront)
    IN AddLocked(AddCredits(AddCredits(AddLocked(l, r, -remainder), r, -remainder), w, remainder),
                 w, -job.lockedStake)

\* systemCompleteJob up to its await (SettleOk holds)
systemCompleteJobSync(j, w) ==
    /\ jobTimeouts' = disarmTimeout(jobTimeouts, j)
    /\ jobs' = [jobs EXCEPT ![j].status = "completed"]
    /\ lastOp' = [lastOp EXCEPT ![j] = "other"]
    /\ IF CompleteLedgerMissing(j, w)
       THEN UNCHANGED <<ledger, reputation, settled, ledgerUpdates, dbReputation>>
       ELSE /\ ledger' = CompleteLedger(ledger, jobs[j], w)
            /\ reputation' = bumpReputation(reputation, w, "completed")
            /\ dbReputation' = upsertReputation(dbReputation, w, reputation'[w])
            /\ settled' = [settled EXCEPT ![j] = @ + 1]
            /\ ledgerUpdates' = IF jobs[j].lockedStake > 0 THEN sendLedgerUpdate(ledgerUpdates, ledger', w)
                                ELSE ledgerUpdates

\* mutant: the slash is taken from the worker but never credited to the requester
FailLedgerSlashBurned(l, job, w) ==
    LET r == job.requesterId
        refund == Max(0, job.lockedBudget - job.paidUpfront)
        stake == job.lockedStake
        slash == slashForStake(stake)
        l1 == AddLocked(l, r, -refund)
    IN IF HasAcct(l, w) /\ stake > 0
       THEN AddCredits(AddLocked(l1, w, -stake), w, -slash)
       ELSE l1

FailLedger(l, job, w) ==
    LET r == job.requesterId
        refund == Max(0, job.lockedBudget - job.paidUpfront)
        stake == job.lockedStake
        slash == slashForStake(stake)
        l1 == AddLocked(l, r, -refund)
    IN IF HasAcct(l, w) /\ stake > 0
       THEN AddCredits(AddCredits(AddLocked(l1, w, -stake), w, -slash), r, slash)
       ELSE l1

\* systemFailJob up to its await (SettleOk holds)
systemFailJobSync(j, w) ==
    /\ jobTimeouts' = disarmTimeout(jobTimeouts, j)
    /\ jobs' = [jobs EXCEPT ![j].status = "failed"]
    /\ lastOp' = [lastOp EXCEPT ![j] = "other"]
    /\ reputation' = bumpReputation(reputation, w, "failed")
    /\ dbReputation' = upsertReputation(dbReputation, w, reputation'[w])
    /\ ledger' = FailLedger(ledger, jobs[j], w)
    /\ settled' = [settled EXCEPT ![j] = @ + 1]
    /\ ledgerUpdates' =
          LET told == IF HasAcct(ledger, w) /\ jobs[j].lockedStake > 0
                      THEN sendLedgerUpdate(ledgerUpdates, ledger', w) ELSE ledgerUpdates
          IN sendLedgerUpdate(told, ledger', jobs[j].requesterId)

ReopenApplies(j) == jobs[j].status \in {"awarded", "failed"}

ReopenLedger(l, job) == AddLocked(l, job.requesterId, -job.lockedBudget)

\* systemReopenJob up to its await (ReopenApplies holds)
systemReopenJobSync(j) ==
    /\ jobTimeouts' = disarmTimeout(jobTimeouts, j)
    /\ ledger' = ReopenLedger(ledger, jobs[j])
    /\ ledgerUpdates' = sendLedgerUpdate(ledgerUpdates, ledger', jobs[j].requesterId)
    /\ jobs' = [jobs EXCEPT ![j].status = "open", ![j].workerId = None,
                            ![j].lockedBudget = 0, ![j].lockedStake = 0]
    /\ lastOp' = [lastOp EXCEPT ![j] = "other"]

\* System calls made by in-process collaborators.  What systemFailJob does
\* after its first await (evidence, broadcast, persistence writes) reads and
\* writes no in-memory state, so the call is one step here; a caller that goes
\* on after systemFailJob returns has its own continuation.
systemCompleteJob(j, w) ==
    /\ CanStart
    /\ SettleOk(j, w)
    /\ systemCompleteJobSync(j, w)
    /\ inflight' = IF CompleteLedgerMissing(j, w) THEN inflight
                   ELSE Suspend(Cont("complete_ev", "system", j, w, "none"))
    /\ UNCHANGED <<granted, nAwards, nReviews, failPath, sessions, maxRounds, sent, atAward, nOffers, agentMeta, awardCap>>

\* systemCompleteJob resumed after the settlement evidence: the job_completed
\* broadcast reads job.lockedBudget at this point
completeAfterEvidence(h) ==
    /\ h.pc = "complete_ev"
    /\ sent' = {Msg("job_completed", "all", h.job, h.arg, jobs[h.job].lockedBudget, FALSE)}
    /\ ledgerUpdates' = sendLedgerUpdate(sendLedgerUpdate(ledgerUpdates, ledger, jobs[h.job].requesterId), ledger, h.arg)
    /\ inflight' = Resume(h, NoCont)
    /\ UNCHANGED <<ledger, reputation, jobs, jobTimeouts, granted, nAwards, nReviews, settled, failPath, lastOp,
                   sessions, maxRounds, atAward, nOffers, dbReputation, agentMeta, awardCap>>

systemFailJob(j, w) ==
    /\ SettleOk(j, w)
    /\ systemFailJobSync(j, w)
    /\ UNCHANGED <<inflight, granted, nAwards, nReviews, failPath, sessions, maxRounds, sent, atAward, nOffers, agentMeta, awardCap>>

systemReopenJob(j) ==
    /\ ReopenApplies(j)
    /\ systemReopenJobSync(j)
    /\ UNCHANGED <<inflight, reputation, granted, nAwards, nReviews, settled, failPath, sessions, maxRounds, sent, atAward, nOffers, dbReputation, agentMeta, awardCap>>

Outcome(j, path, o) ==
    IF failPath[j].outcome \in {"aborted", "skipped"} THEN failPath
    ELSE [failPath EXCEPT ![j] = [path |-> path, outcome |-> o]]

\* systemFailJob returns (its evidence and persistence writes succeeded): the
\* caller (timer callback or handleReview) goes on to systemReopenJob
failPersisted(h) ==
    /\ h.pc = "fail_db"
    /\ IF ReopenApplies(h.job)
       THEN /\ systemReopenJobSync(h.job)
            /\ failPath' = Outcome(h.job, h.path, "reopened")
       ELSE /\ failPath' = Outcome(h.job, h.path, "skipped")
            /\ UNCHANGED <<ledger, jobs, jobTimeouts, lastOp, ledgerUpdates>>
    /\ inflight' = Resume(h, NoCont)
    /\ UNCHANGED <<reputation, granted, nAwards, nReviews, settled, sessions, maxRounds, sent, atAward, nOffers, dbReputation, agentMeta, awardCap>>

\* a persistence write of systemFailJob rejects: the caller never reaches systemReopenJob
failPersistError(h) ==
    /\ h.pc = "fail_db"
    /\ failPath' = Outcome(h.job, h.path, "aborted")
    /\ inflight' = Resume(h, NoCont)
    /\ UNCHANGED <<ledger, reputation, jobs, jobTimeouts, granted, nAwards, nReviews, settled, lastOp, sessions, maxRounds, sent, atAward, nOffers, ledgerUpdates, dbReputation, agentMeta, awardCap>>

\* ----------------------------------------------------------------- review
\* mutant: the changes review also gives up the worker's stake record
ChangesJobDropsStake(job) == [job EXCEPT !.status = "awarded", !.lockedStake = 0]

\* handleReview, changes: keep the contract awarded so the worker can resubmit
ChangesJob(job) == [job EXCEPT !.status = "awarded"]

handleReview(j, a, d) ==
    /\ CanStart
    /\ nReviews < MaxReviews
    /\ ledger[a].has
    /\ ReviewCheck(j, a) = "ok"
    /\ nReviews' = nReviews + 1
    /\ inflight' = Suspend(Cont("review_ev", a, j, d, "none"))
    /\ UNCHANGED <<ledger, reputation, jobs, jobTimeouts, granted, nAwards, settled, failPath, lastOp, sessions, maxRounds, sent, atAward, nOffers, ledgerUpdates, dbReputation, agentMeta, awardCap>>

\* handleReview resumed after the review evidence
reviewAfterEvidence(h) ==
    LET j == h.job
        w == jobs[j].workerId
    IN
    /\ h.pc = "review_ev"
    /\ CASE h.arg = "accept" ->
              IF SettleOk(j, w)
              THEN /\ systemCompleteJobSync(j, w)
                   /\ inflight' = Resume(h, IF CompleteLedgerMissing(j, w) THEN NoCont
                                            ELSE One(Cont("complete_ev", h.conn, j, w, "none")))
              ELSE /\ inflight' = Resume(h, NoCont)
                   /\ UNCHANGED <<ledger, reputation, jobs, jobTimeouts, settled, lastOp, ledgerUpdates, dbReputation>>
         [] h.arg = "reject" ->
              IF SettleOk(j, w)
              THEN /\ systemFailJobSync(j, w)
                   /\ inflight' = Resume(h, One(Cont("fail_db", h.conn, j, w, "reject")))
              ELSE /\ inflight' = Resume(h, NoCont)
                   /\ UNCHANGED <<ledger, reputation, jobs, jobTimeouts, settled, lastOp, ledgerUpdates, dbReputation>>
         [] OTHER ->
              /\ jobs' = [jobs EXCEPT ![j] = ChangesJob(@)]
              /\ lastOp' = [lastOp EXCEPT ![j] = "changes"]
              /\ inflight' = Resume(h, One(Cont("changes_ev", h.conn, j, None, "none")))
              /\ UNCHANGED <<ledger, reputation, jobTimeouts, settled, ledgerUpdates, dbReputation>>
    /\ UNCHANGED <<granted, nAwards, nReviews, failPath, sessions, maxRounds, sent, atAward, nOffers, agentMeta, awardCap>>

\* handleReview(changes) resumed after the changes evidence: re-arm the deadline
changesAfterEvidence(h) ==
    /\ h.pc = "changes_ev"
    /\ jobTimeouts' = armTimeout(jobTimeouts, jobs, h.job)
    /\ inflight' = Resume(h, NoCont)
    /\ UNCHANGED <<ledger, reputation, jobs, granted, nAwards, nReviews, settled, failPath, lastOp, sessions, maxRounds, sent, atAward, nOffers, ledgerUpdates, dbReputation, agentMeta, awardCap>>

\* ------------------------------------------------------------------ timer
\* mutant: the callback does not re-check the job before failing it
TimeoutNoRecheck(job, workerId) == TRUE

\* the re-check made by the timer callback
TimeoutRecheck(job, workerId) == job.status = "awarded" /\ job.workerId = workerId

\* the setTimeout callback registered by armTimeout
TimeoutFire(j) ==
    LET w == jobTimeouts[j].workerId IN
    /\ CanStart
    /\ jobTimeouts[j].live
    /\ IF TimeoutRecheck(jobs[j], w) /\ SettleOk(j, w)
       THEN /\ systemFailJobSync(j, w)
            /\ inflight' = Suspend(Cont("fail_db", "timer", j, w, "timeout"))
       ELSE \* early return, or systemFailJob throws and .catch logs it: the timer is spent
            /\ jobTimeouts' = [jobTimeouts EXCEPT ![j].live = FALSE]
            /\ UNCHANGED <<ledger, reputation, jobs, inflight, settled, lastOp, ledgerUpdates, dbReputation>>
    /\ UNCHANGED <<granted, nAwards, nReviews, failPath, sessions, maxRounds, sent, atAward, nOffers, agentMeta, awardCap>>

\* ------------------------------------------------------------------- Next
Next ==
    \/ \E a \in AuthAgents : handleAuth(a)
    \/ \E a \in EnsureAgents, c \in EnsureCredits : systemEnsureAccount(a, "a", c)
    \/ \E j \in JobIds, r \in Posters, b \in Budgets, p \in UpfrontPcts : handlePostJob(j, r, b, p)
    \/ \E j \in JobIds, r \in Posters, b \in Budgets, p \in UpfrontPcts : systemCreateJob(j, r, b, p)
    \/ \E j \in JobIds, a \in Bidders, p \in BidPrices : handleBid(j, a, p)
    \/ \E j \in JobIds, a \in Agents, w \in Agents : handleAward(j, a, w)
    \/ \E j \in JobIds, w \in Workers : systemAwardJob(j, w)
    \/ \E j \in JobIds, a \in Agents : handleSubmit(j, a)
    \/ \E j \in JobIds, a \in Agents, d \in Decisions : handleReview(j, a, d)
    \/ \E j \in JobIds, w \in Agents : systemCompleteJob(j, w)
    \/ \E j \in JobIds, w \in Agents : systemFailJob(j, w)
    \/ \E j \in JobIds : systemReopenJob(j)
    \/ \E j \in JobIds : TimeoutFire(j)
    \/ \E h \in BagToSet(inflight) : awardAfterEvidence(h)
    \/ \E h \in BagToSet(inflight) : awardAfterUpfront(h)
    \/ \E h \in BagToSet(inflight) : systemAwardAfterEvidence(h)
    \/ \E h \in BagToSet(inflight) : reviewAfterEvidence(h)
    \/ \E h \in BagToSet(inflight) : changesAfterEvidence(h)
    \/ \E h \in BagToSet(inflight) : completeAfterEvidence(h)
    \/ \E h \in BagToSet(inflight) : failPersisted(h)
    \/ \E h \in BagToSet(inflight) : failPersistError(h)

Spec == Init /\ [][Next]_vars

\* The same runs with the scheduling the event loop gives: a handler that is
\* suspended on the persistence writes of systemFailJob is resumed, by the
\* promise resolving or by its rejection.
SpecLive ==
    Init /\ [][Next]_vars
         /\ WF_vars(\E h \in BagToSet(inflight) : failPersisted(h) \/ failPersistError(h))

\* ------------------------------------------------------------ negotiation
HasNegotiation(job) == job.negotiation.status # "none"

\* (prev?.round ?? 0) + 1
NextRound(prev) == prev.round + 1

Offer(w, price, pct, round, status) ==
    [workerId |-> w, price |-> price, status |-> status, round |-> round, pct |-> pct, history |-> <<>>]

HistoryEntry(round, role, price) == [round |-> round, fromRole |-> role, price |-> price]

\* a client handler's fail(session.ws, code) before any write
ClientError(conn, j, code) ==
    /\ sent' = {Msg("error", conn, j, code, 0, FALSE)}
    /\ UNCHANGED <<ledger, reputation, jobs, jobTimeouts, inflight, granted, nAwards, nReviews, settled,
                   failPath, lastOp, sessions, maxRounds, atAward, nOffers, ledgerUpdates, dbReputation, agentMeta, awardCap>>

\* mutant: a counter_offer to another worker is not refused while one is pending
CounterOfferCheckAnyWorker(j, a, w, price) ==
    LET job == jobs[j]
        prev == job.negotiation
    IN
    IF job.status = "none" THEN "job_not_found"
    ELSE IF job.requesterId # a THEN "not_job_owner"
    ELSE IF job.status # "open" THEN "job_not_open"
    ELSE IF ~(\E b \in job.bids : b.bidderId = w) THEN "worker_has_no_bid"
    ELSE IF price > job.budget THEN "offer_over_budget"
    ELSE IF NextRound(prev) > maxRounds THEN "negotiation_max_rounds"
    ELSE "ok"

\* the checks of handleCounterOffer in the order the code makes them
CounterOfferCheck(j, a, w, price) ==
    LET job == jobs[j]
        prev == job.negotiation
    IN
    IF job.status = "none" THEN "job_not_found"
    ELSE IF job.requesterId # a THEN "not_job_owner"
    ELSE IF job.status # "open" THEN "job_not_open"
    ELSE IF ~(\E b \in job.bids : b.bidderId = w) THEN "worker_has_no_bid"
    ELSE IF price > job.budget THEN "offer_over_budget"
    ELSE IF HasNegotiation(job) /\ prev.status = "pending" /\ prev.workerId # w THEN "negotiation_in_progress"
    ELSE IF NextRound(prev) > maxRounds THEN "negotiation_max_rounds"
    ELSE "ok"

\* handleCounterOffer up to its await: offer_made and counter_made are broadcast
handleCounterOffer(j, a, w, price, pct) ==
    /\ CanStart
    /\ nOffers < MaxOffers
    /\ CounterOfferCheck(j, a, w, price) = "ok"
    /\ nOffers' = nOffers + 1
    /\ sent' = {Msg("offer_made", "all", j, w, price, FALSE),
                Msg("counter_made", "all", j, w, NextRound(jobs[j].negotiation), FALSE)}
    /\ inflight' = Suspend(NegCont("offer_ev", a, j, w, jobs[j].negotiation,
                                   Offer(w, price, pct, NextRound(jobs[j].negotiation), "pending"), FALSE))
    /\ UNCHANGED <<ledger, reputation, jobs, jobTimeouts, granted, nAwards, nReviews, settled, failPath, lastOp,
                   sessions, maxRounds, atAward, ledgerUpdates, dbReputation, agentMeta, awardCap>>

handleCounterOfferError(j, a, w, price) ==
    /\ CounterOfferCheck(j, a, w, price) \notin {"ok", "negotiation_max_rounds"}
    /\ ClientError(a, j, CounterOfferCheck(j, a, w, price))

\* handleCounterOffer resumed after the offer evidence: payload.negotiation is
\* written from the negotiation read before the await
counterOfferAfterEvidence(h) ==
    LET prev == h.prev
        base == IF prev.status # "none" /\ prev.workerId = h.arg THEN prev
                ELSE Offer(h.arg, h.offer.price, h.offer.pct, 0, "pending")
    IN
    /\ h.pc = "offer_ev"
    /\ jobs' = [jobs EXCEPT ![h.job].negotiation =
                    [base EXCEPT !.price = h.offer.price, !.status = "pending", !.round = h.offer.round,
                                 !.pct = h.offer.pct,
                                 !.history = Append(base.history, HistoryEntry(h.offer.round, "boss", h.offer.price))]]
    /\ inflight' = Resume(h, NoCont)
    /\ UNCHANGED <<ledger, reputation, jobTimeouts, granted, nAwards, nReviews, settled, failPath, lastOp,
                   sessions, maxRounds, sent, atAward, nOffers, ledgerUpdates, dbReputation, agentMeta, awardCap>>

\* the checks of handleWorkerCounter in the order the code makes them
WorkerCounterCheck(j, a, r, price) ==
    LET job == jobs[j]
        prev == job.negotiation
    IN
    IF job.status = "none" THEN "job_not_found"
    ELSE IF job.status # "open" THEN "job_not_open"
    ELSE IF r # job.requesterId THEN "bad_requester"
    ELSE IF price > job.budget THEN "counter_over_budget"
    ELSE IF ~HasNegotiation(job) THEN "no_active_offer"
    ELSE IF prev.workerId # a THEN "not_offer_target"
    ELSE IF prev.status # "pending" THEN "negotiation_not_pending"
    ELSE IF NextRound(prev) > maxRounds THEN "negotiation_max_rounds"
    ELSE "ok"

\* handleWorkerCounter up to its await: counter_made is broadcast
handleWorkerCounter(j, a, r, price, pct) ==
    /\ CanStart
    /\ nOffers < MaxOffers
    /\ WorkerCounterCheck(j, a, r, price) = "ok"
    /\ nOffers' = nOffers + 1
    /\ sent' = {Msg("counter_made", "all", j, a, NextRound(jobs[j].negotiation), FALSE)}
    /\ inflight' = Suspend(NegCont("counter_ev", a, j, a, jobs[j].negotiation,
                                   Offer(a, price, pct, NextRound(jobs[j].negotiation), "pending"), FALSE))
    /\ UNCHANGED <<ledger, reputation, jobs, jobTimeouts, granted, nAwards, nReviews, settled, failPath, lastOp,
                   sessions, maxRounds, atAward, ledgerUpdates, dbReputation, agentMeta, awardCap>>

handleWorkerCounterError(j, a, r, price) ==
    /\ WorkerCounterCheck(j, a, r, price) \notin {"ok", "negotiation_max_rounds"}
    /\ ClientError(a, j, WorkerCounterCheck(j, a, r, price))

\* handleWorkerCounter resumed after the counter evidence
workerCounterAfterEvidence(h) ==
    LET prev == h.prev IN
    /\ h.pc = "counter_ev"
    /\ jobs' = [jobs EXCEPT ![h.job].negotiation =
                    [prev EXCEPT !.price = h.offer.price, !.status = "pending", !.round = h.offer.round,
                                 !.pct = h.offer.pct,
                                 !.history = Append(prev.history, HistoryEntry(h.offer.round, "worker", h.offer.price))]]
    /\ inflight' = Resume(h, NoCont)
    /\ UNCHANGED <<ledger, reputation, jobTimeouts, granted, nAwards, nReviews, settled, failPath, lastOp,
                   sessions, maxRounds, sent, atAward, nOffers, ledgerUpdates, dbReputation, agentMeta, awardCap>>

\* mutant: the round limit closes the negotiation one round further
MaxRoundsCloseBumpsRound(prev) == [prev EXCEPT !.status = "max_rounds", !.round = @ + 1]

\* { ...prev, status: 'max_rounds' }
MaxRoundsClose(prev) == [prev EXCEPT !.status = "max_rounds"]

\* the round limit is hit (either counter handler): the negotiation is closed
\* before the await
MaxRoundsHit(j, conn, w) ==
    /\ CanStart
    /\ jobs' = [jobs EXCEPT ![j].negotiation = MaxRoundsClose(@)]
    /\ inflight' = Suspend(NegCont("maxr_ev", conn, j, w, jobs[j].negotiation, NoNegotiation, jobs' # jobs))
    /\ UNCHANGED <<ledger, reputation, jobTimeouts, granted, nAwards, nReviews, settled, failPath, lastOp,
                   sessions, maxRounds, sent, atAward, nOffers, ledgerUpdates, dbReputation, agentMeta, awardCap>>

handleCounterOfferMaxRounds(j, a, w, price) ==
    /\ CounterOfferCheck(j, a, w, price) = "negotiation_max_rounds"
    /\ MaxRoundsHit(j, a, w)

handleWorkerCounterMaxRounds(j, a, r, price) ==
    /\ WorkerCounterCheck(j, a, r, price) = "negotiation_max_rounds"
    /\ MaxRoundsHit(j, a, a)

\* after the negotiation_end evidence: negotiation_ended is broadcast, the job
\* is persisted, and the client gets its error
maxRoundsPersisted(h) ==
    /\ h.pc = "maxr_ev"
    /\ sent' = {Msg("negotiation_ended", "all", h.job, "max_rounds", h.prev.round, FALSE),
                          Msg("error", h.conn, h.job, "negotiation_max_rounds", 0, h.wrote)}
    /\ inflight' = Resume(h, NoCont)
    /\ UNCHANGED <<ledger, reputation, jobs, jobTimeouts, granted, nAwards, nReviews, settled, failPath, lastOp,
                   sessions, maxRounds, atAward, nOffers, ledgerUpdates, dbReputation, agentMeta, awardCap>>

\* db.updateJob rejects: the handler ends after the broadcast, without a reply
\* (onMessage's promise rejects and nothing catches it)
maxRoundsPersistError(h) ==
    /\ h.pc = "maxr_ev"
    /\ sent' = {Msg("negotiation_ended", "all", h.job, "max_rounds", h.prev.round, FALSE),
                Msg("unhandled_rejection", "log", h.job, "updateJob", 0, h.wrote)}
    /\ inflight' = Resume(h, NoCont)
    /\ UNCHANGED <<ledger, reputation, jobs, jobTimeouts, granted, nAwards, nReviews, settled, failPath, lastOp,
                   sessions, maxRounds, atAward, nOffers, ledgerUpdates, dbReputation, agentMeta, awardCap>>

\* the checks of handleOfferDecision in the order the code makes them
OfferDecisionCheck(j, a, r) ==
    LET job == jobs[j] IN
    IF job.status = "none" THEN "job_not_found"
    ELSE IF ~HasNegotiation(job) THEN "no_active_offer"
    ELSE IF job.negotiation.workerId # a THEN "not_offer_target"
    ELSE IF job.status # "open" THEN "job_not_open"
    ELSE IF r # job.requesterId THEN "bad_requester"
    ELSE "ok"

\* handleOfferDecision up to its await: offer_response is broadcast
handleOfferDecision(j, a, r, d) ==
    /\ CanStart
    /\ nOffers < MaxOffers
    /\ OfferDecisionCheck(j, a, r) = "ok"
    /\ nOffers' = nOffers + 1
    /\ sent' = {Msg("offer_response", "all", j, d, 0, FALSE)}
    /\ inflight' = Suspend(NegCont("decision_ev", a, j, a, jobs[j].negotiation,
                                   [jobs[j].negotiation EXCEPT !.status = d], FALSE))
    /\ UNCHANGED <<ledger, reputation, jobs, jobTimeouts, granted, nAwards, nReviews, settled, failPath, lastOp,
                   sessions, maxRounds, atAward, ledgerUpdates, dbReputation, agentMeta, awardCap>>

handleOfferDecisionError(j, a, r) ==
    /\ OfferDecisionCheck(j, a, r) # "ok"
    /\ ClientError(a, j, OfferDecisionCheck(j, a, r))

\* handleOfferDecision resumed after the offer_response evidence: the decision
\* is written onto the negotiation read before the await
decisionAfterEvidence(h) ==
    /\ h.pc = "decision_ev"
    /\ jobs' = [jobs EXCEPT ![h.job].negotiation = h.offer]
    /\ inflight' = Resume(h, One(NegCont("decision_db", h.conn, h.job, h.arg, h.prev, h.offer, jobs' # jobs)))
    /\ UNCHANGED <<ledger, reputation, jobTimeouts, granted, nAwards, nReviews, settled, failPath, lastOp,
                   sessions, maxRounds, sent, atAward, nOffers, ledgerUpdates, dbReputation, agentMeta, awardCap>>

\* db.updateJob succeeded.  reject: negotiation_ended{rejected} after one more
\* evidence write.  accept: acceptedTerms and acceptedPrice are recorded.
decisionPersisted(h) ==
    /\ h.pc = "decision_db"
    /\ IF h.offer.status = "reject"
       THEN /\ sent' = {Msg("negotiation_ended", "all", h.job, "rejected", h.prev.round, FALSE)}
            /\ inflight' = Resume(h, NoCont)
            /\ UNCHANGED jobs
       ELSE /\ jobs' = [jobs EXCEPT ![h.job].upfrontPct = h.prev.pct, ![h.job].acceptedPrice = h.prev.price]
            /\ inflight' = Resume(h, One(NegCont("accept_ev", h.conn, h.job, h.arg, h.prev, h.offer,
                                                 h.wrote \/ jobs' # jobs)))
            /\ UNCHANGED sent
    /\ UNCHANGED <<ledger, reputation, jobTimeouts, granted, nAwards, nReviews, settled, failPath, lastOp,
                   sessions, maxRounds, atAward, nOffers, ledgerUpdates, dbReputation, agentMeta, awardCap>>

\* db.updateJob rejects: the handler ends with the decision written
decisionPersistError(h) ==
    /\ h.pc = "decision_db"
    /\ inflight' = Resume(h, NoCont)
    /\ UNCHANGED <<ledger, reputation, jobs, jobTimeouts, granted, nAwards, nReviews, settled, failPath, lastOp,
                   sessions, maxRounds, sent, atAward, nOffers, ledgerUpdates, dbReputation, agentMeta, awardCap>>

\* handleOfferDecision(accept) resumed after the negotiation evidence:
\* awardJob with agreedPrice = negotiation.price and errWs = the worker's socket
acceptAward(h) ==
    LET j == h.job
        code == AwardCheck(j, jobs[j].requesterId, h.arg, h.prev.price)
    IN
    /\ h.pc = "accept_ev"
    /\ IF code = "ok"
       THEN /\ nAwards < awardCap
            /\ AwardApply(j, h.arg, h.prev.price)
            /\ inflight' = Resume(h, One(Cont("award_ev", h.conn, j, h.arg, "none")))
            /\ UNCHANGED sent
       ELSE /\ sent' = {Msg("error", h.conn, j, code, 0, h.wrote)}
            /\ inflight' = Resume(h, NoCont)
            /\ UNCHANGED <<ledger, jobs, nAwards, settled, lastOp, atAward, ledgerUpdates>>
    /\ UNCHANGED <<reputation, jobTimeouts, granted, nReviews, failPath, sessions, maxRounds, nOffers, dbReputation, agentMeta, awardCap>>

\* handleAward answered with an error
handleAwardError(j, a, w) ==
    /\ AwardCheck(j, a, w, jobs[j].budget) # "ok"
    /\ ClientError(a, j, AwardCheck(j, a, w, jobs[j].budget))

handleSubmitError(j, a) ==
    /\ ledger[a].has
    /\ SubmitCheck(j, a) # "ok"
    /\ ClientError(a, j, SubmitCheck(j, a))

handleReviewError(j, a) ==
    /\ ledger[a].has
    /\ ReviewCheck(j, a) # "ok"
    /\ ClientError(a, j, ReviewCheck(j, a))

handleBidError(j, a, halves) ==
    /\ ledger[a].has
    /\ BidCheck(j, halves) # "ok"
    /\ ClientError(a, j, BidCheck(j, halves))

\* bids at, below and above the budget, on a job that does not exist, is open or is past open
NextBid ==
    \/ \E a \in Agents : handleAuth(a)
    \/ \E j \in JobIds, r \in Posters, b \in Budgets, p \in UpfrontPcts : handlePostJob(j, r, b, p)
    \/ \E j \in JobIds, a \in Agents, h \in BidHalves : handleBidPrice(j, a, h)
    \/ \E j \in JobIds, a \in Agents, h \in BidHalves : handleBidError(j, a, h)
    \/ \E j \in JobIds, a \in Posters, w \in Workers : handleAward(j, a, w)
    \/ \E j \in JobIds, w \in Workers : systemCompleteJob(j, w)
    \/ \E h \in BagToSet(inflight) : awardAfterEvidence(h)
    \/ \E h \in BagToSet(inflight) : awardAfterUpfront(h)
    \/ \E h \in BagToSet(inflight) : completeAfterEvidence(h)

SpecBid == Init /\ [][NextBid]_vars

\* award, submit and review from every agent in every status, accepted or answered with an error
NextGuard ==
    \/ \E a \in Agents : handleAuth(a)
    \/ \E j \in JobIds, r \in Posters, b \in Budgets, p \in UpfrontPcts : handlePostJob(j, r, b, p)
    \/ \E j \in JobIds, a \in Bidders, p \in BidPrices : handleBid(j, a, p)
    \/ \E j \in JobIds, a \in Agents, w \in Workers : handleAward(j, a, w)
    \/ \E j \in JobIds, a \in Agents, w \in Workers : ledger[a].has /\ handleAwardError(j, a, w)
    \/ \E j \in JobIds, a \in Agents : handleSubmitAwait(j, a)
    \/ \E j \in JobIds, a \in Agents : handleSubmitError(j, a)
    \/ \E j \in JobIds, a \in Agents, d \in Decisions : handleReview(j, a, d)
    \/ \E j \in JobIds, a \in Agents : handleReviewError(j, a)
    \/ \E j \in JobIds, w \in Workers : systemCompleteJob(j, w)
    \/ \E j \in JobIds, w \in Workers : systemFailJob(j, w)
    \/ \E h \in BagToSet(inflight), e \in Evaluations : submitAfterPersist(h, e)
    \/ \E h \in BagToSet(inflight) : awardAfterEvidence(h)
    \/ \E h \in BagToSet(inflight) : awardAfterUpfront(h)
    \/ \E h \in BagToSet(inflight) : reviewAfterEvidence(h)
    \/ \E h \in BagToSet(inflight) : changesAfterEvidence(h)
    \/ \E h \in BagToSet(inflight) : completeAfterEvidence(h)
    \/ \E h \in BagToSet(inflight) : failPersisted(h)

SpecGuard == Init /\ [][NextGuard]_vars

\* ----------------------------------------------------- the negotiation runs
InitNeg == Start /\ maxRounds \in MaxRoundsEnv /\ awardCap = MaxAwards

NextNeg ==
    \/ \E a \in AuthAgents : handleAuth(a)
    \/ \E j \in JobIds, r \in Posters, b \in DealBudgets : handlePostJob(j, r, b, 0)
    \/ \E j \in JobIds, a \in Bidders, p \in DealBidPrices : p = DealBid(jobs[j].budget) /\ handleBid(j, a, p)
    \/ \E j \in JobIds, a \in Posters, w \in Bidders, p \in OfferPrices, u \in OfferPcts :
          handleCounterOffer(j, a, w, p, u)
    \/ \E j \in JobIds, a \in Posters, w \in Bidders, p \in OfferPrices : handleCounterOfferError(j, a, w, p)
    \/ \E j \in JobIds, a \in Posters, w \in Bidders, p \in OfferPrices : handleCounterOfferMaxRounds(j, a, w, p)
    \/ \E j \in JobIds, a \in Bidders, r \in Posters, p \in CounterPrices, u \in OfferPcts :
          handleWorkerCounter(j, a, r, p, u)
    \/ \E j \in JobIds, a \in Bidders, r \in Posters, p \in CounterPrices : handleWorkerCounterError(j, a, r, p)
    \/ \E j \in JobIds, a \in Bidders, r \in Posters, p \in CounterPrices : handleWorkerCounterMaxRounds(j, a, r, p)
    \/ \E j \in JobIds, a \in Bidders, r \in Posters, d \in OfferDecisions : handleOfferDecision(j, a, r, d)
    \/ \E j \in JobIds, a \in Bidders, r \in Posters : handleOfferDecisionError(j, a, r)
    \/ \E j \in JobIds, a \in Posters, w \in Bidders : handleAward(j, a, w)
    \/ \E j \in JobIds, a \in Posters, w \in Bidders : handleAwardError(j, a, w)
    \/ \E j \in JobIds, a \in Bidders : handleSubmit(j, a)
    \/ \E j \in JobIds, a \in Posters : handleReview(j, a, "accept")
    \/ \E h \in BagToSet(inflight) : counterOfferAfterEvidence(h)
    \/ \E h \in BagToSet(inflight) : workerCounterAfterEvidence(h)
    \/ \E h \in BagToSet(inflight) : maxRoundsPersisted(h)
    \/ \E h \in BagToSet(inflight) : maxRoundsPersistError(h)
    \/ \E h \in BagToSet(inflight) : decisionAfterEvidence(h)
    \/ \E h \in BagToSet(inflight) : decisionPersisted(h)
    \/ \E h \in BagToSet(inflight) : decisionPersistError(h)
    \/ \E h \in BagToSet(inflight) : acceptAward(h)
    \/ \E h \in BagToSet(inflight) : awardAfterEvidence(h)
    \/ \E h \in BagToSet(inflight) : awardAfterUpfront(h)
    \/ \E h \in BagToSet(inflight) : reviewAfterEvidence(h)
    \/ \E h \in BagToSet(inflight) : completeAfterEvidence(h)

SpecNeg == InitNeg /\ [][NextNeg]_vars

\* ------------------------------------- counter-offers to more than one worker
NextOffer ==
    \/ \E a \in Agents : handleAuth(a)
    \/ \E j \in JobIds, r \in Posters, b \in DealBudgets : handlePostJob(j, r, b, 0)
    \/ \E j \in JobIds, a \in OfferWorkers, p \in DealBidPrices : p = DealBid(jobs[j].budget) /\ handleBid(j, a, p)
    \/ \E j \in JobIds, a \in Posters, w \in OfferWorkers, p \in OfferPrices, u \in OfferPcts :
          handleCounterOffer(j, a, w, p, u)
    \/ \E j \in JobIds, a \in Posters, w \in OfferWorkers, p \in OfferPrices : handleCounterOfferError(j, a, w, p)
    \/ \E j \in JobIds, a \in Posters, w \in OfferWorkers, p \in OfferPrices : handleCounterOfferMaxRounds(j, a, w, p)
    \/ \E j \in JobIds, a \in OfferWorkers, r \in Posters : handleOfferDecision(j, a, r, "reject")
    \/ \E h \in BagToSet(inflight) : counterOfferAfterEvidence(h)
    \/ \E h \in BagToSet(inflight) : maxRoundsPersisted(h)
    \/ \E h \in BagToSet(inflight) : maxRoundsPersistError(h)
    \/ \E h \in BagToSet(inflight) : decisionAfterEvidence(h)
    \/ \E h \in BagToSet(inflight) : decisionPersisted(h)
    \/ \E h \in BagToSet(inflight) : decisionPersistError(h)

SpecOffer == InitNeg /\ [][NextOffer]_vars

\* --------------------------------------------------- submissions of any kind
NextSubmit ==
    \/ \E a \in AuthAgents : handleAuth(a)
    \/ \E j \in JobIds, r \in Posters, b \in Budgets, p \in UpfrontPcts, k \in JobKinds :
          handlePostJobKind(j, r, b, p, k)
    \/ \E j \in JobIds, a \in Bidders, p \in BidPrices : handleBid(j, a, p)
    \/ \E j \in JobIds, a \in Posters, w \in Bidders : handleAward(j, a, w)
    \/ \E j \in JobIds, a \in Bidders : handleSubmitAwait(j, a)
    \/ \E j \in JobIds, a \in Posters, d \in Decisions : handleReview(j, a, d)
    \/ \E h \in BagToSet(inflight), e \in Evaluations : submitAfterPersist(h, e)
    \/ \E h \in BagToSet(inflight) : awardAfterEvidence(h)
    \/ \E h \in BagToSet(inflight) : awardAfterUpfront(h)
    \/ \E h \in BagToSet(inflight) : reviewAfterEvidence(h)
    \/ \E h \in BagToSet(inflight) : changesAfterEvidence(h)
    \/ \E h \in BagToSet(inflight) : completeAfterEvidence(h)
    \/ \E h \in BagToSet(inflight) : failPersisted(h)
    \/ \E h \in BagToSet(inflight) : failPersistError(h)

SpecSubmit == Init /\ [][NextSubmit]_vars

\* ------------------------------------------------------------------- auth
\* crypto.verify of the signature against the supplied public key over the
\* text rebuilt from the message's own nonce, agentName and publicKey
verifyAuth(msg) ==
    msg.signature = signAuth(msg.publicKey, msg.nonce, msg.agentName, msg.publicKey)

\* sha256 of the public key: one agent id per key
deriveAgentId(k) == IF k = "k_req" THEN "req" ELSE "w1"

\* auth messages: any nonce, name and key, signed by any key pair over any nonce
AuthMsgs ==
    { [nonce |-> n, agentName |-> name, publicKey |-> k, signature |-> signAuth(sk, sn, name, k)] :
          n \in Nonces, name \in AgentNames, k \in Keys, sk \in Keys, sn \in Nonces }

onConnection(s, n) ==
    /\ ~sessions[s].open
    /\ \A h \in BagToSet(inflight) : h.conn # s
    /\ sessions' = [sessions EXCEPT ![s] = [NoSession EXCEPT !.open = TRUE, !.nonce = n]]
    /\ sent' = {Msg("challenge", s, None, n, 0, FALSE)}
    /\ UNCHANGED <<ledger, reputation, jobs, jobTimeouts, inflight, granted, nAwards, nReviews, settled,
                   failPath, lastOp, maxRounds, atAward, nOffers, ledgerUpdates, dbReputation, agentMeta, awardCap>>

\* mutant: the signature is not verified
AuthCheckNoSignature(s, msg) ==
    IF sessions[s].authed THEN "ignored"
    ELSE IF msg.nonce # sessions[s].nonce THEN "bad_nonce"
    ELSE IF msg.agentName = "" THEN "bad_agent_name"
    ELSE "ok"

\* the checks of handleAuth in the order the code makes them: "ignored" (an
\* authed session returns without a reply), the error code, or "ok"
\* onClose: the session is deleted; nothing else is touched.  A handler of
\* the connection that is suspended keeps running on the deleted session.
onClose(s) ==
    /\ sessions[s].open
    /\ sessions' = [sessions EXCEPT ![s] = [NoSession EXCEPT !.last = sessions[s].agentId,
                                                             !.dbErrors = sessions[s].dbErrors]]
    /\ UNCHANGED <<ledger, reputation, jobs, jobTimeouts, inflight, granted, nAwards, nReviews, settled,
                   failPath, lastOp, maxRounds, sent, atAward, nOffers, ledgerUpdates, dbReputation, agentMeta, awardCap>>

AuthCheck(s, msg) ==
    IF sessions[s].authed THEN "ignored"
    ELSE IF msg.nonce # sessions[s].nonce THEN "bad_nonce"
    ELSE IF msg.agentName = "" THEN "bad_agent_name"
    ELSE IF ~verifyAuth(msg) THEN "signature_verification_failed"
    ELSE "ok"

handleAuthError(s, msg) ==
    /\ sessions[s].open
    /\ AuthCheck(s, msg) \notin {"ok", "ignored"}
    /\ sent' = {Msg("error", s, None, AuthCheck(s, msg), 0, FALSE)}
    /\ UNCHANGED <<ledger, reputation, jobs, jobTimeouts, inflight, granted, nAwards, nReviews, settled,
                   failPath, lastOp, sessions, maxRounds, atAward, nOffers, ledgerUpdates, dbReputation, agentMeta, awardCap>>

\* mutant: the account is created again on every authentication
AuthNeedsAccountAlways(l, a) == TRUE

\* `if (!this.ledger.has(agentId))` of handleAuth
AuthNeedsAccount(l, a) == ~l[a].has

\* handleAuth of a verified message, up to its `await this.db.upsertAgent`:
\* the session is bound and the account created before the await
handleAuthVerified(s, msg) ==
    /\ sessions[s].open
    /\ CanStart
    /\ AuthCheck(s, msg) = "ok"
    /\ LET a == deriveAgentId(msg.publicKey) IN
       /\ sessions' = [sessions EXCEPT ![s].authed = TRUE, ![s].agentId = a, ![s].via = msg,
                                       ![s].credits = IF AuthNeedsAccount(ledger, a) THEN DEFAULT_STARTING_CREDITS
                                                       ELSE ledger[a].credits,
                                       ![s].reconnect = \E c \in Conns : ~sessions[c].open /\ sessions[c].last = a]
       /\ IF ~AuthNeedsAccount(ledger, a)
          THEN UNCHANGED <<ledger, granted>>
          ELSE /\ ledger' = [ledger EXCEPT ![a] = [has |-> TRUE, credits |-> DEFAULT_STARTING_CREDITS, locked |-> 0]]
               /\ granted' = granted + DEFAULT_STARTING_CREDITS
       /\ inflight' = Suspend(Cont("auth_db", s, None, a, "none"))
       /\ agentMeta' = [agentMeta EXCEPT ![a] = msg.agentName]
    /\ sent' = {}
    /\ UNCHANGED <<reputation, jobs, jobTimeouts, nAwards, nReviews, settled,
                   failPath, lastOp, maxRounds, atAward, nOffers, ledgerUpdates, dbReputation, awardCap>>

\* the three upserts resolved: authed{agentId, credits} is sent, with the
\* credits read before the await; send drops it when the socket has closed
authPersisted(h) ==
    /\ h \in BagToSet(inflight)
    /\ h.pc = "auth_db"
    /\ inflight' = Resume(h, NoCont)
    /\ sent' = IF sessions[h.conn].open
               THEN {Msg("authed", h.conn, None, h.arg, sessions[h.conn].credits, FALSE)}
               ELSE {}
    /\ dbReputation' = upsertReputation(dbReputation, h.arg, [completed |-> 0, failed |-> 0])
    /\ UNCHANGED <<ledger, reputation, jobs, jobTimeouts, granted, nAwards, nReviews, settled,
                   failPath, lastOp, sessions, maxRounds, atAward, nOffers, ledgerUpdates, agentMeta, awardCap>>

\* mutant: the catch block leaves the session bound
authRollbackKeepsSession(sess) == [sess EXCEPT !.dbErrors = @ + 1]

\* the catch block of handleAuth
authRollback(sess) ==
    [sess EXCEPT !.authed = FALSE, !.agentId = None, !.via = NoAuthMsg, !.dbErrors = @ + 1]

\* one of the upserts rejected
authPersistError(h) ==
    /\ h \in BagToSet(inflight)
    /\ h.pc = "auth_db"
    /\ sessions[h.conn].dbErrors < MaxDbErrors
    /\ inflight' = Resume(h, NoCont)
    /\ sessions' = [sessions EXCEPT ![h.conn] = IF @.open THEN authRollback(@)
                                                 ELSE [@ EXCEPT !.dbErrors = @ + 1]]
    /\ sent' = IF sessions[h.conn].open THEN {Msg("error", h.conn, None, "db_error_auth", 0, TRUE)}
               ELSE {}
    /\ UNCHANGED <<ledger, reputation, jobs, jobTimeouts, granted, nAwards, nReviews, settled,
                   failPath, lastOp, maxRounds, atAward, nOffers, ledgerUpdates, dbReputation, agentMeta, awardCap>>

\* onMessage: a message other than auth on a session that is not authed
onMessageNotAuthenticated(s) ==
    /\ sessions[s].open
    /\ ~sessions[s].authed
    /\ sent' = {Msg("error", s, None, "not_authenticated", 0, FALSE)}
    /\ UNCHANGED <<ledger, reputation, jobs, jobTimeouts, inflight, granted, nAwards, nReviews, settled,
                   failPath, lastOp, sessions, maxRounds, atAward, nOffers, ledgerUpdates, dbReputation, agentMeta, awardCap>>

\* onMessage dispatching post_job on an authed session to handlePostJob
onMessagePostJob(s, j, b) ==
    LET r == sessions[s].agentId IN
    /\ sessions[s].open
    /\ sessions[s].authed
    /\ jobs[j].status = "none"
    /\ HasAcct(ledger, r)
    /\ Spendable(ledger, r) >= b
    /\ jobs' = [jobs EXCEPT ![j] = NewJob(r, b, 0)]
    /\ sent' = {Msg("job_posted", "all", j, r, b, FALSE)}
    /\ UNCHANGED <<ledger, reputation, jobTimeouts, inflight, granted, nAwards, nReviews, settled,
                   failPath, lastOp, sessions, maxRounds, atAward, nOffers, ledgerUpdates, dbReputation, agentMeta, awardCap>>

\* onMessage dispatching bid on an authed session to handleBid
onMessageBid(s, j, p) ==
    LET a == sessions[s].agentId IN
    /\ sessions[s].open
    /\ sessions[s].authed
    /\ jobs[j].status = "open"
    /\ p <= jobs[j].budget
    /\ [bidderId |-> a, price |-> p] \notin jobs[j].bids
    /\ jobs' = [jobs EXCEPT ![j].bids = @ \cup {[bidderId |-> a, price |-> p]}]
    /\ sent' = {Msg("bid_posted", "all", j, a, p, FALSE)}
    /\ UNCHANGED <<ledger, reputation, jobTimeouts, inflight, granted, nAwards, nReviews, settled,
                   failPath, lastOp, sessions, maxRounds, atAward, nOffers, ledgerUpdates, dbReputation, agentMeta, awardCap>>

\* ------------------------------------------------------ the handshake runs
NextAuth ==
    \/ \E s \in Conns, n \in Nonces : onConnection(s, n)
    \/ \E s \in Conns, msg \in AuthMsgs : handleAuthError(s, msg)
    \/ \E s \in Conns, msg \in AuthMsgs : handleAuthVerified(s, msg)
    \/ \E h \in BagToSet(inflight) : authPersisted(h)
    \/ \E h \in BagToSet(inflight) : authPersistError(h)
    \/ \E s \in Conns : onMessageNotAuthenticated(s)
    \/ \E s \in Conns, j \in JobIds, b \in Budgets : onMessagePostJob(s, j, b)
    \/ \E s \in Conns, j \in JobIds, p \in BidPrices : onMessageBid(s, j, p)

SpecAuth == Init /\ [][NextAuth]_vars

\* ---------------------------------------- reputation across the handshakes
\* Agents authenticate (and authenticate again on another connection) while
\* in-process collaborators create, award and settle jobs.
NextRep ==
    \/ \E s \in Conns, n \in Nonces : onConnection(s, n)
    \/ \E s \in Conns, msg \in AuthMsgs : handleAuthVerified(s, msg)
    \/ \E h \in BagToSet(inflight) : authPersisted(h)
    \/ \E h \in BagToSet(inflight) : authPersistError(h)
    \/ \E a \in EnsureAgents, c \in EnsureCredits : systemEnsureAccount(a, "a", c)
    \/ \E j \in JobIds, r \in Posters, b \in Budgets, p \in UpfrontPcts : systemCreateJob(j, r, b, p)
    \/ \E j \in JobIds, w \in Workers : systemAwardJob(j, w)
    \/ \E h \in BagToSet(inflight) : systemAwardAfterEvidence(h)
    \/ \E j \in JobIds, w \in Workers : systemCompleteJob(j, w)
    \/ \E h \in BagToSet(inflight) : completeAfterEvidence(h)
    \/ \E j \in JobIds, w \in Workers : systemFailJob(j, w)
    \/ \E j \in JobIds : systemReopenJob(j)

SpecRep == Init /\ [][NextRep]_vars

\* ------------------------------------------- accounts ensured repeatedly
\* In-process collaborators create identities, call systemEnsureAccount
\* again for them with other arguments, and run jobs between the calls.
NextEnsure ==
    \/ \E a \in Agents, e \in EnsureCalls : systemEnsureAccount(a, e[1], e[2])
    \/ \E j \in JobIds, r \in Posters, b \in Budgets, p \in UpfrontPcts : systemCreateJob(j, r, b, p)
    \/ \E j \in JobIds, w \in Workers : systemAwardJob(j, w)
    \/ \E h \in BagToSet(inflight) : systemAwardAfterEvidence(h)
    \/ \E j \in JobIds, w \in Workers : systemCompleteJob(j, w)
    \/ \E h \in BagToSet(inflight) : completeAfterEvidence(h)
    \/ \E j \in JobIds, w \in Workers : systemFailJob(j, w)
    \/ \E j \in JobIds : systemReopenJob(j)

SpecEnsure == Init /\ [][NextEnsure]_vars

\* --------------------------------------------- a job that is awarded again
\* The runs go up to one award more than the others, so that a job that was
\* awarded, failed or not, and reopened is awarded a second time.
InitReaward == Start /\ maxRounds = DEFAULT_NEGOTIATION_MAX_ROUNDS /\ awardCap = MaxAwards + 1

NextReaward ==
    \/ \E a \in Agents : handleAuth(a)
    \/ \E j \in JobIds, r \in Posters, b \in Budgets, p \in UpfrontPcts : handlePostJob(j, r, b, p)
    \/ \E j \in JobIds, a \in Workers, p \in BidPrices : handleBid(j, a, p)
    \/ \E j \in JobIds, a \in Posters, w \in Workers : handleAward(j, a, w)
    \/ \E j \in JobIds, w \in Workers : systemAwardJob(j, w)
    \/ \E j \in JobIds, w \in Workers : systemCompleteJob(j, w)
    \/ \E j \in JobIds, w \in Workers : systemFailJob(j, w)
    \/ \E j \in JobIds : systemReopenJob(j)
    \/ \E h \in BagToSet(inflight) : awardAfterEvidence(h)
    \/ \E h \in BagToSet(inflight) : awardAfterUpfront(h)
    \/ \E h \in BagToSet(inflight) : systemAwardAfterEvidence(h)
    \/ \E h \in BagToSet(inflight) : completeAfterEvidence(h)

SpecReaward == InitReaward /\ [][NextReaward]_vars

\* ------------------------------------ negotiated terms and a later award
\* A negotiation is accepted on a job with two bidders; the requester also
\* awards directly, and the job can be failed, reopened and awarded again.
NextTerms ==
    \/ \E a \in Agents : handleAuth(a)
    \/ \E j \in JobIds, r \in Posters, b \in Budgets : handlePostJob(j, r, b, 0)
    \/ \E j \in JobIds, a \in OfferWorkers, p \in DealBidPrices : p = DealBid(jobs[j].budget) /\ handleBid(j, a, p)
    \/ \E j \in JobIds, a \in Posters, w \in OfferWorkers, p \in OfferPrices, u \in OfferPcts :
          handleCounterOffer(j, a, w, p, u)
    \/ \E j \in JobIds, a \in OfferWorkers, r \in Posters : handleOfferDecision(j, a, r, "accept")
    \/ \E j \in JobIds, a \in Posters, w \in OfferWorkers : handleAward(j, a, w)
    \/ \E j \in JobIds, w \in OfferWorkers : systemFailJob(j, w)
    \/ \E j \in JobIds : systemReopenJob(j)
    \/ \E h \in BagToSet(inflight) : counterOfferAfterEvidence(h)
    \/ \E h \in BagToSet(inflight) : decisionAfterEvidence(h)
    \/ \E h \in BagToSet(inflight) : decisionPersisted(h)
    \/ \E h \in BagToSet(inflight) : acceptAward(h)
    \/ \E h \in BagToSet(inflight) : awardAfterEvidence(h)
    \/ \E h \in BagToSet(inflight) : awardAfterUpfront(h)

SpecTerms == InitReaward /\ [][NextTerms]_vars

\* accounts with enough and with too few credits for a budget of 100 and a stake of 7,
\* bids and awards from and to every agent
NextFunds ==
    \/ \E a \in Agents, c \in FundsCredits : systemEnsureAccount(a, "a", c)
    \/ \E j \in JobIds, r \in Posters, b \in Budgets, p \in UpfrontPcts : handlePostJob(j, r, b, p)
    \/ \E j \in JobIds, a \in Agents, p \in BidPrices : handleBid(j, a, p)
    \/ \E j \in JobIds, a \in Agents, w \in Agents : handleAward(j, a, w)
    \/ \E j \in JobIds, a \in Agents, w \in Agents : ledger[a].has /\ handleAwardError(j, a, w)
    \/ \E j \in JobIds, w \in Agents : systemAwardJob(j, w)
    \/ \E j \in JobIds : systemReopenJob(j)
    \/ \E h \in BagToSet(inflight) : awardAfterEvidence(h)
    \/ \E h \in BagToSet(inflight) : awardAfterUpfront(h)
    \/ \E h \in BagToSet(inflight) : systemAwardAfterEvidence(h)

SpecFunds == InitReaward /\ [][NextFunds]_vars

\* ------------------------------------------------ connections that close
\* Agents connect, authenticate, bid and disconnect while a job is created,
\* awarded and completed by in-process collaborators.
NextClose ==
    \/ \E s \in Conns : onConnection(s, "n1")
    \/ \E s \in Conns, msg \in AuthMsgs : handleAuthVerified(s, msg)
    \/ \E h \in BagToSet(inflight) : authPersisted(h)
    \/ \E s \in Conns : onClose(s)
    \/ \E s \in Conns, j \in JobIds, p \in BidPrices : onMessageBid(s, j, p)
    \/ \E j \in JobIds, r \in Posters, b \in Budgets : systemCreateJob(j, r, b, 0)
    \/ \E j \in JobIds, w \in Workers : systemAwardJob(j, w)
    \/ \E h \in BagToSet(inflight) : systemAwardAfterEvidence(h)
    \/ \E j \in JobIds, w \in Workers : systemCompleteJob(j, w)
    \/ \E h \in BagToSet(inflight) : completeAfterEvidence(h)

SpecClose == Init /\ [][NextClose]_vars

\* ------------------------------------------------- the timer callback alone
\* The callback of a timer armed for worker t, invoked with the job in every
\* status and with every assigned worker: the cases the callback's re-check
\* distinguishes.
TimerCases ==
    {<<"open", None>>, <<"awarded", "w1">>, <<"awarded", "w2">>, <<"awarded", None>>,
     <<"in_review", "w1">>, <<"in_review", "w2">>, <<"completed", "w1">>, <<"completed", "w2">>,
     <<"failed", "w1">>, <<"failed", "w2">>}

TimerJob(st, w, pct, rep) ==
    LET held == st \in {"awarded", "in_review"} /\ w # None IN
    [status |-> st, requesterId |-> "req", workerId |-> w, budget |-> 100,
     bids |-> {[bidderId |-> b, price |-> 10] : b \in Bidders},
     lockedBudget |-> IF st = "open" THEN 0 ELSE 100,
     lockedStake |-> IF held THEN workerStakeFor(100, rep) ELSE 0,
     paidUpfront |-> IF st = "open" THEN 0 ELSE upfrontFor(100, pct),
     upfrontPct |-> pct, negotiation |-> NoNegotiation, acceptedPrice |-> 0,
     kind |-> "simple", autoVerify |-> "none"]

TimerLedger(job) ==
    LET held == job.status \in {"awarded", "in_review"} /\ job.workerId # None IN
    [a \in Agents |->
        [has |-> TRUE,
         credits |-> DEFAULT_STARTING_CREDITS
                     + (IF a = job.workerId THEN job.paidUpfront ELSE 0)
                     - (IF a = "req" /\ job.workerId # None THEN job.paidUpfront ELSE 0),
         locked |-> (IF a = "req" /\ held THEN job.lockedBudget - job.paidUpfront ELSE 0)
                    + (IF a = job.workerId /\ held THEN job.lockedStake ELSE 0)]]

InitTimer ==
    \E c \in TimerCases, t \in Workers, pct \in UpfrontPcts, f \in 0..1 :
        LET rep == [completed |-> 0, failed |-> f]
            job == TimerJob(c[1], c[2], pct, rep)
        IN
        /\ jobs = [j \in JobIds |-> job]
        /\ ledger = TimerLedger(job)
        /\ reputation = [a \in Agents |-> IF a = c[2] THEN rep ELSE [completed |-> 0, failed |-> 0]]
        /\ jobTimeouts = [j \in JobIds |-> [live |-> TRUE, workerId |-> t]]
        /\ inflight = EmptyBag
        /\ granted = 3 * DEFAULT_STARTING_CREDITS
        /\ nAwards = 1
        /\ nReviews = 0
        /\ settled = [j \in JobIds |-> 0]
        /\ failPath = [j \in JobIds |-> NoOutcome]
        /\ lastOp = [j \in JobIds |-> "other"]
        /\ sessions = [s \in Conns |-> NoSession]
        /\ maxRounds = DEFAULT_NEGOTIATION_MAX_ROUNDS
        /\ sent = {}
        /\ atAward = [j \in JobIds |-> NoSnapshot]
        /\ nOffers = 0
    /\ ledgerUpdates = [a \in Agents |-> NoUpdate]
    /\ dbReputation = reputation
    /\ agentMeta = [a \in Agents |-> IF ledger[a].has THEN "a" ELSE None]
    /\ awardCap = MaxAwards

NextTimer ==
    \/ \E j \in JobIds : TimeoutFire(j)
    \/ \E h \in BagToSet(inflight) : failPersisted(h)
    \/ \E h \in BagToSet(inflight) : failPersistError(h)

SpecTimer == InitTimer /\ [][NextTimer]_vars

\* ================================================================= claims
Armed(j) == jobTimeouts[j].live
NoInflightFor(j) == \A h \in BagToSet(inflight) : h.job # j
Contract(j) == jobs[j].status \in {"awarded", "in_review"}

RECURSIVE SumCredits(_)
SumCredits(S) ==
    IF S = {} THEN 0
    ELSE LET a == CHOOSE x \in S : TRUE IN ledger[a].credits + SumCredits(S \ {a})

\* what the contracts in force hold of agent a's locked: escrow as requester, stake as worker
RECURSIVE HeldFor(_, _)
HeldFor(a, S) ==
    IF S = {} THEN 0
    ELSE LET j == CHOOSE x \in S : TRUE IN
         (IF Contract(j) /\ jobs[j].requesterId = a THEN jobs[j].lockedBudget - jobs[j].paidUpfront ELSE 0)
         + (IF Contract(j) /\ jobs[j].workerId = a THEN jobs[j].lockedStake ELSE 0)
         + HeldFor(a, S \ {j})

\* C1: whenever no handler is in progress, every ledger account has
\* 0 <= locked <= credits, also after a contract was failed and reopened.
C1_LockedWithinCredits ==
    Quiescent => \A a \in Agents :
        ledger[a].has => (0 <= ledger[a].locked /\ ledger[a].locked <= ledger[a].credits)

\* C2: at every quiescent state each agent's locked is exactly what the
\* awarded / in_review jobs hold of it: (lockedBudget - paidUpfront) as
\* requester plus lockedStake as worker; nothing stays locked for other jobs.
C2_LockedEqualsHeld ==
    Quiescent => \A a \in Agents : ledger[a].locked = HeldFor(a, JobIds)

\* C3: a job of budget 100 without upfront, awarded once and never submitted,
\* that the deadline failed and reopened leaves the worker's locked at 0 and
\* the requester's locked back at 0.
C3_TimeoutRefundsOnce ==
    \A j \in JobIds :
        ( /\ Quiescent
          /\ nAwards = 1 /\ nReviews = 0
          /\ failPath[j] = [path |-> "timeout", outcome |-> "reopened"]
          /\ jobs[j].status = "open" /\ jobs[j].budget = 100 /\ jobs[j].upfrontPct = 0 )
        => \A a \in Agents : ledger[a].locked = 0

\* C4: at every quiescent state the credits of all accounts add up to the
\* starting-credit grants made so far.
C4_CreditsConserved == Quiescent => SumCredits(Agents) = granted

\* C4 witness: quiescent, after an award that paid upfront was failed with a
\* slash and reopened.
C4_Witness ==
    /\ Quiescent
    /\ \E j \in JobIds :
          /\ jobs[j].status = "open" /\ jobs[j].paidUpfront > 0
          /\ \E w \in Agents : reputation[w].failed > 0
                               /\ ledger[w].credits # DEFAULT_STARTING_CREDITS + jobs[j].paidUpfront

\* C5: once a job is completed, no step changes its status, workerId,
\* lockedBudget, lockedStake or paidUpfront.
C5_CompletedIsFinal ==
    [][\A j \in JobIds :
          jobs[j].status = "completed" =>
             /\ jobs'[j].status = "completed"
             /\ jobs'[j].workerId = jobs[j].workerId
             /\ jobs'[j].lockedBudget = jobs[j].lockedBudget
             /\ jobs'[j].lockedStake = jobs[j].lockedStake
             /\ jobs'[j].paidUpfront = jobs[j].paidUpfront]_vars

\* C6: handlers on one job behave as if run one after the other, so an award
\* is settled at most once (one completion or one failure).
C6_AwardSettledAtMostOnce == \A j \in JobIds : settled[j] <= 1

\* C7: the handler of a message has finished before the handler of the next
\* message of the same connection starts: a connection never has two
\* handlers in progress.
C7_OneHandlerPerConnection ==
    \A h \in BagToSet(inflight) :
        h.conn \in Agents =>
            /\ CopiesIn(h, inflight) = 1
            /\ \A g \in BagToSet(inflight) : g.conn = h.conn => g = h

\* C8: a timer callback that runs when the job is not awarded, or is assigned
\* to another worker than the one the timer was armed for, changes no job,
\* ledger or reputation state; it fails the job only when both still hold.
C8_TimerRechecks ==
    [][\A j \in JobIds :
          (jobTimeouts[j].live /\ ~jobTimeouts'[j].live /\ inflight' # inflight
              => jobs[j].status = "awarded" /\ jobs[j].workerId = jobTimeouts[j].workerId)
          /\ (jobTimeouts[j].live
                /\ ~(jobs[j].status = "awarded" /\ jobs[j].workerId = jobTimeouts[j].workerId)
              => jobs' = jobs /\ ledger' = ledger /\ reputation' = reputation)]_vars

\* C8 witness: the callback has run on a job that was submitted in the
\* meantime (the timer is spent, the job is still in_review).
C8_Witness ==
    \E j \in JobIds :
        /\ jobs[j].status = "in_review"
        /\ ~jobTimeouts[j].live /\ jobTimeouts[j].workerId = jobs[j].workerId

\* C9: a failure path of the exchange (deadline or reject review) that has
\* applied settlement-failure goes on to reopen the job.
C9_FailurePathReopens ==
    \A j \in JobIds : failPath[j].outcome \in {"none", "reopened"}

\* C10 as stated: exactly one timer after an award, none after a submission
\* and none after a changes review has been processed.
C10_Original ==
    \A j \in JobIds :
        NoInflightFor(j) =>
            /\ lastOp[j] = "award" => Armed(j)
            /\ lastOp[j] \in {"submit", "changes"} => ~Armed(j)

\* C10 amended: exactly one timer after an award, none after a submission;
\* a changes review re-arms the timer, so after it the job has exactly one
\* timer when it has an assigned worker (and none when it has no worker).
C10_TimerCount ==
    \A j \in JobIds :
        NoInflightFor(j) =>
            /\ lastOp[j] = "award" => Armed(j)
            /\ lastOp[j] = "submit" => ~Armed(j)
            /\ lastOp[j] = "changes" => (Armed(j) <=> jobs[j].workerId # None)

\* C10 witness: a changes review has been processed and its timer is armed
C10_Witness ==
    \E j \in JobIds : NoInflightFor(j) /\ lastOp[j] = "changes" /\ Armed(j)

\* handler h, suspended before this step, is resumed by it
Resumed(h) == CopiesIn(h, inflight') < CopiesIn(h, inflight)

\* the contract fields a review must not touch
SameContract(j) ==
    /\ jobs'[j].lockedBudget = jobs[j].lockedBudget
    /\ jobs'[j].lockedStake = jobs[j].lockedStake
    /\ jobs'[j].paidUpfront = jobs[j].paidUpfront
    /\ jobs'[j].workerId = jobs[j].workerId

\* C11: a changes review processed on an in_review job sets the status back
\* to awarded, and when its evidence is written arms a fresh timer for the
\* assigned worker (if the job is still awarded then); neither step changes
\* lockedBudget, lockedStake, paidUpfront, workerId, the ledger or the
\* reputations.
C11_ChangesReview ==
    [][\A h \in BagToSet(inflight) :
          /\ (h.pc = "review_ev" /\ h.arg = "changes" /\ Resumed(h) /\ jobs[h.job].status = "in_review")
                => /\ jobs'[h.job].status = "awarded"
                   /\ SameContract(h.job)
                   /\ ledger' = ledger /\ reputation' = reputation
          /\ (h.pc = "changes_ev" /\ Resumed(h))
                => /\ jobs' = jobs /\ ledger' = ledger /\ reputation' = reputation
                   /\ (jobs[h.job].status = "awarded" /\ jobs[h.job].workerId # None
                         => jobTimeouts'[h.job] = [live |-> TRUE, workerId |-> jobs[h.job].workerId])]_vars

\* C11 witness: a changes review has been processed: the job is awarded again
\* with its stake still locked and its timer armed
C11_Witness ==
    \E j \in JobIds :
        /\ Quiescent /\ lastOp[j] = "changes" /\ settled[j] = 0
        /\ jobs[j].status = "awarded" /\ jobs[j].lockedStake > 0
        /\ jobTimeouts[j] = [live |-> TRUE, workerId |-> jobs[j].workerId]
        /\ ledger[jobs[j].workerId].locked = jobs[j].lockedStake

\* C12: a client message answered with error{message} leaves the server state
\* as it was: the handler that sends the error has written nothing, and its
\* reply is not accompanied by a broadcast reporting a change.
C12_ErrorsLeaveState ==
    \A m \in sent : m.type = "error" => (~m.wrote /\ sent = {m})

\* C18: every step that awards a job carrying payload.acceptedPrice locks
\* that acceptedPrice from the requester and stores it as lockedBudget.
C18_AwardLocksAcceptedPrice ==
    [][\A j \in JobIds :
          (jobs[j].status = "open" /\ jobs'[j].status = "awarded" /\ jobs[j].acceptedPrice > 0)
             => /\ jobs'[j].lockedBudget = jobs[j].acceptedPrice
                /\ ledger'[jobs[j].requesterId].locked
                      = ledger[jobs[j].requesterId].locked + jobs[j].acceptedPrice]_vars

\* the rounds recorded in a negotiation's history are strictly increasing
RoundsIncrease(neg) ==
    \A i \in 1..Len(neg.history) - 1 : neg.history[i].round < neg.history[i + 1].round

\* C19: every accepted counter (counter_offer or worker_counter) sets the
\* stored negotiation's round to the previous round + 1, starting from 1;
\* history rounds are strictly increasing; no round exceeds the configured
\* maximum; an accepted price is at most the job's budget.
C19_RoundsAdvance ==
    /\ [][\A h \in BagToSet(inflight) :
              (h.pc \in {"offer_ev", "counter_ev"} /\ Resumed(h))
                 => jobs'[h.job].negotiation.round = jobs[h.job].negotiation.round + 1]_vars
    /\ [](\A j \in JobIds :
              /\ RoundsIncrease(jobs[j].negotiation)
              /\ jobs[j].negotiation.round <= maxRounds
              /\ jobs[j].acceptedPrice <= jobs[j].budget)

\* handler h is started (suspended for the first time) by this step
Started(h) == CopiesIn(h, inflight') > CopiesIn(h, inflight)

\* the requester's counter_offer that comes after its own round 1 and the
\* worker's round 2, with the maximum number of rounds set to 2
ThirdCounter(h) ==
    /\ h.pc = "maxr_ev" /\ maxRounds = 2
    /\ h.conn = jobs[h.job].requesterId
    /\ h.prev.status = "pending" /\ h.prev.round = 2
    /\ Len(h.prev.history) = 2
    /\ h.prev.history[1].fromRole = "boss" /\ h.prev.history[2].fromRole = "worker"

PendingWithOther(j, w) ==
    /\ jobs[j].status = "open"
    /\ jobs[j].negotiation.status = "pending"
    /\ jobs[j].negotiation.workerId # w

C22_LedgerUpdateFollows ==
    Quiescent =>
       \A a \in Agents :
          HasAcct(ledger, a) =>
             IF ledgerUpdates[a].sent
             THEN ledgerUpdates[a].credits = ledger[a].credits /\ ledgerUpdates[a].locked = ledger[a].locked
             ELSE ledger[a].locked = 0

\* C23: in the step that broadcasts counter_made{round r} the job's stored
\* negotiation has round r with that worker, in the step that broadcasts
\* offer_response{decision} the stored negotiation status is that decision,
\* and in the step that broadcasts job_completed the job is completed.
C23_BroadcastAfterChange ==
    [][\A m \in sent' :
          sent' # sent =>
             /\ m.type = "counter_made"
                   => (jobs'[m.job].negotiation.round = m.n /\ jobs'[m.job].negotiation.workerId = m.code)
             /\ m.type = "offer_response" => jobs'[m.job].negotiation.status = m.code
             /\ m.type = "job_completed" => jobs'[m.job].status = "completed"]_vars

C24_SystemAwardAsClient ==
    [][\A h \in BagToSet(inflight) :
          LET j == h.job
              w == h.arg
              r == jobs[j].requesterId
              upfront == IF jobs[j].upfrontPct > 0 THEN upfrontFor(jobs[j].lockedBudget, jobs[j].upfrontPct) ELSE 0
          IN
          (h.pc = "sysaward_ev" /\ Resumed(h) /\ jobs[j].status = "awarded" /\ jobs[j].workerId = w
             /\ settled[j] = 0 /\ nAwards = 1 /\ (\E b \in jobs[j].bids : b.bidderId = w))
             => /\ jobs'[j].paidUpfront = upfront
                /\ ledger'[w].credits = atAward[j].worker + upfront
                /\ ledger'[r].credits = atAward[j].requester - upfront
                /\ ledger'[r].locked = jobs[j].lockedBudget - upfront
                /\ Armed(j)']_vars

\* C26: an agent's reputation counters change only in settlement: a step
\* changes the counters of agent a only when it settles a job assigned to a,
\* adding one to completed when the job becomes completed and one to failed
\* when it becomes failed; the persisted row changes only together with the
\* counters and to their new values, so no other operation (authentication
\* and re-authentication included) changes or resets it.
C26_ReputationOnlyInSettlement ==
    [][\A a \in Agents :
          /\ reputation'[a] # reputation[a] =>
                \E j \in JobIds :
                   /\ SettleOk(j, a)
                   /\ \/ /\ jobs'[j].status = "completed"
                         /\ reputation'[a] = [reputation[a] EXCEPT !.completed = @ + 1]
                      \/ /\ jobs'[j].status = "failed"
                         /\ reputation'[a] = [reputation[a] EXCEPT !.failed = @ + 1]
          /\ dbReputation'[a] # dbReputation[a] =>
                /\ reputation'[a] # reputation[a]
                /\ dbReputation'[a] = reputation'[a]]_vars

\* C27: closing a connection changes no ledger account, reputation, job, bid
\* or armed timer; an authentication binds the session to the agentId derived
\* from its public key, and when that agent already has an account the step
\* leaves the ledger as it is and grants nothing; the authed reply carries
\* that agentId and the credits the account had when the session was bound.
C27_ReconnectKeepsAccount ==
    [][\A s \in Conns :
          /\ (sessions[s].open /\ ~sessions'[s].open) =>
                UNCHANGED <<ledger, reputation, jobs, jobTimeouts, granted>>
          /\ (~sessions[s].authed /\ sessions'[s].authed) =>
                LET a == deriveAgentId(sessions'[s].via.publicKey) IN
                /\ sessions'[s].agentId = a
                /\ ledger[a].has =>
                      /\ ledger' = ledger
                      /\ granted' = granted
                      /\ sessions'[s].credits = ledger[a].credits
          /\ \A m \in sent' :
                (sent' # sent /\ m.type = "authed" /\ m.to = s) =>
                   /\ m.code = sessions[s].agentId
                   /\ m.n = sessions[s].credits]_vars

\* C27 witness: w1 was paid for a job, its connection closed, and it has
\* authenticated again on another connection: the reply names w1 with the
\* credits the earlier session left, and only two grants were ever made
C27_Witness ==
    \E s \in Conns :
        /\ sessions[s].authed /\ sessions[s].reconnect /\ sessions[s].agentId = "w1"
        /\ ledger["w1"].credits = DEFAULT_STARTING_CREDITS + 100
        /\ sent = {Msg("authed", s, None, "w1", DEFAULT_STARTING_CREDITS + 100, FALSE)}
        /\ granted = 2 * DEFAULT_STARTING_CREDITS

\* C28: awarding a job of budget 100 to a fresh worker (no completed and no
\* failed job) at the default stake percentage locks a stake of exactly 5
\* credits, 5% of the budget, from the worker.
C28_FreshWorkerStake ==
    [][\A j \in JobIds :
          LET w == jobs'[j].workerId IN
          (jobs[j].status = "open" /\ jobs'[j].status = "awarded" /\ jobs[j].budget = 100
             /\ w \in Agents /\ reputation[w] = [completed |-> 0, failed |-> 0]) =>
             /\ jobs'[j].lockedStake = 5
             /\ ledger'[w].locked = ledger[w].locked + 5]_vars

\* C29: systemEnsureAccount is idempotent: a call for an agent that already
\* has an account (seen here as the step that gives the agent another display
\* name) leaves the credits and locked of every account, the reputation
\* counters in memory and in the database and the total of credits granted
\* unchanged, whatever startingCredits it passes; credits are granted only by
\* a step that creates an account.
C29_EnsureIdempotent ==
    [][/\ \A a \in Agents :
             (ledger[a].has /\ agentMeta'[a] # agentMeta[a]) =>
                /\ ledger' = ledger
                /\ reputation' = reputation
                /\ dbReputation' = dbReputation
                /\ granted' = granted
       /\ granted' # granted => \E a \in Agents : ~ledger[a].has /\ ledger'[a].has]_vars

\* C29 witness: w1's account was created with 1000 credits under the name
\* "a" (an account created by the other call has 0 credits and can never be
\* awarded a job), w1 was paid 100 for a job, and a later call
\* {agentName: "b", startingCredits: 0} found the account: 1100 credits,
\* one completed job and a single grant per account remain
C29_Witness ==
    /\ agentMeta["w1"] = "b"
    /\ ledger["w1"] = [has |-> TRUE, credits |-> 1100, locked |-> 0]
    /\ reputation["w1"] = [completed |-> 1, failed |-> 0]
    /\ dbReputation["w1"] = [completed |-> 1, failed |-> 0]
    /\ granted = 2000

\* C30: offer_decision takes effect only while the negotiation is pending:
\* the award made for an offer_decision accept moves the job from open to
\* awarded only when the negotiation the worker answered was pending (not
\* already rejected, accepted or ended by max_rounds).
C30_DecisionOnlyWhilePending ==
    [][\A h \in BagToSet(inflight) :
          (h.pc = "accept_ev" /\ Resumed(h)
             /\ jobs[h.job].status = "open" /\ jobs'[h.job].status = "awarded") =>
             h.prev.status = "pending"]_vars

\* the handler that awarded job j has run to its end
AwardFinished(j) ==
    \A h \in BagToSet(inflight) : ~(h.job = j /\ h.pc \in {"award_ev", "award_up", "sysaward_ev"})

\* C31: when a job is awarded again after a reopen, the first settlement-
\* success of the new award (taken once the award handler has finished) leaves
\* the new worker with the credits it had just before that award plus the full
\* lockedBudget of the award, the requester with those it had minus the
\* lockedBudget, and releases what was still locked for the award: upfront
\* paid in an earlier award is not counted against it.
C31_ReawardPaysInFull ==
    [][\A j \in JobIds :
          LET r == jobs[j].requesterId
              w == jobs[j].workerId
              B == jobs[j].lockedBudget
              paidNow == atAward[j].requester - ledger[r].credits
          IN
          (nAwards = 2 /\ settled[j] = 0 /\ AwardFinished(j) /\ w \in Agents
             /\ jobs[j].status \in {"awarded", "in_review"} /\ jobs'[j].status = "completed") =>
             /\ ledger'[w].credits = atAward[j].worker + B
             /\ ledger'[r].credits = atAward[j].requester - B
             /\ ledger'[r].locked = ledger[r].locked - (B - paidNow)]_vars

\* C32: systemReopenJob on a job in status awarded (no settlement-failure
\* before it, the award handler finished) releases exactly what the award
\* locked: the requester's locked decreases by lockedBudget - paidUpfront, the
\* worker's locked by lockedStake; no credits move and no reputation changes.
C32_ReopenReleasesAward ==
    [][\A j \in JobIds :
          LET r == jobs[j].requesterId
              w == jobs[j].workerId
          IN
          (jobs[j].status = "awarded" /\ jobs'[j].status = "open" /\ nAwards = 1 /\ AwardFinished(j)) =>
             /\ ledger'[r].locked = ledger[r].locked - (jobs[j].lockedBudget - jobs[j].paidUpfront)
             /\ ledger'[w].locked = ledger[w].locked - jobs[j].lockedStake
             /\ ledger'[r].credits = ledger[r].credits
             /\ ledger'[w].credits = ledger[w].credits
             /\ reputation' = reputation]_vars

\* C33: a job does not stay failed after a timeout or a reject review: once
\* one of these paths has set the status to failed (its handler is suspended
\* on the writes of the settlement-failure step), the job is eventually open
\* again, also when one of the writes fails.
C33_FailedJobReopens ==
    \A j \in JobIds :
        (jobs[j].status = "failed" /\ \E h \in BagToSet(inflight) : h.pc = "fail_db" /\ h.job = j)
           ~> (jobs[j].status = "open")

\* C34: when the negotiation on a job has ended (status reject or max_rounds)
\* and the requester's counter_offer to a different bidder is recorded, the new
\* negotiation is with that bidder, at round 1, with a history that holds this
\* first offer alone; and such a counter_offer is never refused for the rounds
\* used with the earlier worker.
C34_NewNegotiationStartsOver ==
    /\ [][\A h \in BagToSet(inflight) :
              (h.pc = "offer_ev" /\ Resumed(h) /\ jobs[h.job].negotiation = h.prev
                 /\ h.prev.status \in {"reject", "max_rounds"} /\ h.prev.workerId # h.arg) =>
                 /\ jobs'[h.job].negotiation.workerId = h.arg
                 /\ jobs'[h.job].negotiation.round = 1
                 /\ jobs'[h.job].negotiation.history = <<HistoryEntry(1, "boss", h.offer.price)>>]_vars
    /\ [](\A j \in JobIds, w \in OfferWorkers, p \in OfferPrices :
              (jobs[j].negotiation.status \in {"reject", "max_rounds"} /\ jobs[j].negotiation.workerId # w)
                 => CounterOfferCheck(j, jobs[j].requesterId, w, p) # "negotiation_max_rounds")

\* C35: an upfront payment at award goes only to the worker who accepted the
\* negotiated terms: on a job posted without terms, the step of awardJob that
\* moves the upfront pays a worker only when the job's negotiation is with
\* that worker and stands accepted.
C35_UpfrontOnlyToAcceptingWorker ==
    [][\A h \in BagToSet(inflight) :
          (h.pc = "award_ev" /\ Resumed(h) /\ h.arg \in Agents
             /\ ledger'[h.arg].credits > ledger[h.arg].credits) =>
             /\ jobs[h.job].negotiation.status = "accept"
             /\ jobs[h.job].negotiation.workerId = h.arg]_vars

\* C36: a non-auth message that arrives on a session whose auth is still
\* waiting for its persistence writes is not acted on: while the handshake of
\* the only session bound to an agent is suspended, no step posts a job or
\* records a bid in that agent's name.
C36_NoActionDuringAuth ==
    [][\A h \in BagToSet(inflight) :
          (h.pc = "auth_db" /\ h \in BagToSet(inflight')
             /\ \A c \in Conns \ {h.conn} : sessions[c].agentId # h.arg) =>
             \A j \in JobIds :
                /\ (jobs[j].status = "none" /\ jobs'[j].status # "none") => jobs'[j].requesterId # h.arg
                /\ \A b \in jobs'[j].bids \ jobs[j].bids : b.bidderId # h.arg]_vars

\* C37: for a contract awarded under accepted terms, the changes reviews
\* accepted during the award never exceed acceptedTerms.maxRevisions: a changes
\* review handled on its own (no other handler suspended) sends the job back
\* from in_review to awarded only if it is within the limit.
C37_RevisionsWithinTerms ==
    [][\A h \in BagToSet(inflight) :
          (h.pc = "review_ev" /\ Resumed(h) /\ h.arg = "changes" /\ BagCardinality(inflight) = 1
             /\ jobs[h.job].upfrontPct > 0
             /\ jobs[h.job].status = "in_review" /\ jobs'[h.job].status = "awarded") =>
             nReviews <= TermsMaxRevisions]_vars

\* an error step: the outbox changes to one error message
Rejects(m) == sent' # sent /\ sent' = {m} /\ m.type = "error"

\* C38: award is accepted only from the job's requester while the job is open and only to
\* a worker with a bid on it, submit only from the assigned worker while awarded, review
\* only from the requester while in_review, and a job is settled (completed or failed)
\* only from awarded or in_review with its assigned worker, so a job becomes awarded only
\* from open or in_review and in_review only from awarded; a request that is answered
\* with not_job_owner, job_not_open, worker_has_no_bid, job_not_awarded,
\* not_assigned_worker or job_not_in_review fails the check the code names and changes
\* nothing
C38_TransitionsGuarded ==
    [][/\ \A h \in BagToSet(inflight') :
             (Started(h) /\ h.pc = "award_ev") =>
                 /\ h.conn = jobs[h.job].requesterId
                 /\ jobs[h.job].status = "open"
                 /\ \E b \in jobs[h.job].bids : b.bidderId = h.arg
                 /\ jobs'[h.job].status = "awarded" /\ jobs'[h.job].workerId = h.arg
       /\ \A h \in BagToSet(inflight') :
             (Started(h) /\ h.pc = "submit_ev") =>
                 /\ h.conn = jobs[h.job].workerId
                 /\ jobs[h.job].status = "awarded"
                 /\ jobs'[h.job].status = "in_review"
       /\ \A h \in BagToSet(inflight') :
             (Started(h) /\ h.pc = "review_ev") =>
                 /\ h.conn = jobs[h.job].requesterId
                 /\ jobs[h.job].status = "in_review"
       /\ \A j \in JobIds :
             /\ (jobs'[j].status # jobs[j].status /\ jobs'[j].status = "awarded") =>
                    jobs[j].status \in {"open", "in_review"}
             /\ (jobs'[j].status # jobs[j].status /\ jobs'[j].status = "in_review") =>
                    jobs[j].status = "awarded"
       /\ \A j \in JobIds :
             (jobs'[j].status # jobs[j].status /\ jobs'[j].status \in {"completed", "failed"}) =>
                 /\ jobs[j].status \in {"awarded", "in_review"}
                 /\ jobs[j].workerId \in Workers
                 /\ jobs'[j].workerId = jobs[j].workerId
                 /\ \A a \in Agents \ {jobs[j].requesterId, jobs[j].workerId} : ledger'[a] = ledger[a]
       /\ \A m \in sent' :
             Rejects(m) =>
                 /\ UNCHANGED <<ledger, reputation, dbReputation, jobs, jobTimeouts, inflight, granted, settled, sessions, agentMeta>>
                 /\ m.code = "not_job_owner" => jobs[m.job].requesterId # m.to
                 /\ m.code = "job_not_open" => jobs[m.job].status # "open"
                 /\ m.code = "worker_has_no_bid" => \E w \in Workers : \A b \in jobs[m.job].bids : b.bidderId # w
                 /\ m.code = "job_not_awarded" => jobs[m.job].status # "awarded"
                 /\ m.code = "not_assigned_worker" => jobs[m.job].workerId # m.to
                 /\ m.code = "job_not_in_review" => jobs[m.job].status # "in_review"]_vars

\* C39: a step that awards job j at price P with stake S is taken only when the requester
\* can spend P and the worker can spend S, raises the requester's locked by exactly P and
\* the worker's locked by exactly S, leaves every credits figure alone and records
\* lockedBudget = P and lockedStake = S; an award answered with insufficient_credits or
\* worker_insufficient_stake leaves the ledger, the job and the timer map unchanged
C39_AwardLocksExactly ==
    [][/\ \A j \in JobIds :
             (jobs[j].status = "open" /\ jobs'[j].status = "awarded") =>
                 LET r == jobs[j].requesterId
                     w == jobs'[j].workerId
                     P == jobs'[j].lockedBudget
                     S == jobs'[j].lockedStake
                 IN /\ S = workerStakeFor(jobs[j].budget, RepOf(reputation, w))
                    /\ Spendable(ledger, r) >= P
                    /\ Spendable(ledger, w) >= S
                    /\ ledger'[r].locked = ledger[r].locked + P
                    /\ ledger'[w].locked = ledger[w].locked + S
                    /\ \A a \in Agents : ledger'[a].credits = ledger[a].credits
       /\ \A m \in sent' :
             (Rejects(m) /\ m.code \in {"insufficient_credits", "worker_insufficient_stake"}) =>
                 /\ UNCHANGED <<ledger, jobs, jobTimeouts>>
                 /\ m.code = "insufficient_credits" =>
                        Spendable(ledger, jobs[m.job].requesterId) < jobs[m.job].budget]_vars

\* C40: a step adds a bid to a job's book only while the job is open, adds only bids with
\* price <= the job's budget and removes none, so every bid in the book has price <= its
\* job's budget; a bid answered with job_not_found, job_not_open or bid_over_budget
\* records nothing; the step that posts a job and the step that records a bid lock
\* nothing and leave every ledger account as it was
C40_BidsWithinBudget ==
    [][/\ \A j \in JobIds :
             jobs'[j].bids # jobs[j].bids =>
                 /\ jobs[j].status = "open" /\ jobs'[j].status = "open"
                 /\ jobs[j].bids \subseteq jobs'[j].bids
                 /\ \A b \in jobs'[j].bids \ jobs[j].bids : b.price <= jobs[j].budget
                 /\ ledger' = ledger
       /\ \A j \in JobIds :
             (jobs[j].status = "none" /\ jobs'[j].status # "none") =>
                 /\ jobs'[j].status = "open" /\ jobs'[j].bids = {}
                 /\ jobs'[j].lockedBudget = 0 /\ jobs'[j].lockedStake = 0
                 /\ ledger' = ledger
       /\ \A m \in sent' :
             (Rejects(m) /\ m.code \in {"job_not_found", "job_not_open", "bid_over_budget"}) =>
                 UNCHANGED <<jobs, ledger>>
       /\ \A j \in JobIds : \A b \in jobs'[j].bids : b.price <= jobs'[j].budget]_vars

\* the book holds a bid at the budget and one below it, and a bid above the budget was
\* answered with bid_over_budget
C40_Witness ==
    \E j \in JobIds :
        /\ \E b \in jobs[j].bids : b.price = jobs[j].budget
        /\ \E b \in jobs[j].bids : b.price < jobs[j].budget
        /\ \E m \in sent : m.type = "error" /\ m.job = j /\ m.code = "bid_over_budget"

\* the auth message that authenticated session s carried the session's own
\* challenge nonce and a signature that verifies
Verified(s) ==
    /\ sessions[s].via.nonce = sessions[s].nonce
    /\ verifyAuth(sessions[s].via)
    /\ sessions[s].agentId = deriveAgentId(sessions[s].via.publicKey)

\* C13: a session is authed only through an auth message with the session's
\* own nonce and a verifying signature; a step that acts on a non-auth
\* message (posts a job or a bid) is made for such a session under its agent
\* id; a step answered not_authenticated, bad_nonce or
\* signature_verification_failed is made on a session that is not authed and
\* changes nothing: no session, no account, no job.
C13_AuthBeforeAction ==
    /\ [](\A s \in Conns : sessions[s].authed => (sessions[s].open /\ Verified(s)))
    /\ [][\A j \in JobIds :
              jobs'[j] # jobs[j] =>
                 \E s \in Conns :
                    /\ sessions[s].authed /\ Verified(s)
                    /\ \/ jobs[j].status = "none" /\ jobs'[j].requesterId = sessions[s].agentId
                       \/ \E b \in jobs'[j].bids \ jobs[j].bids : b.bidderId = sessions[s].agentId]_vars
    /\ [][\A m \in sent' :
              (m.type = "error" /\ m.code \in {"not_authenticated", "bad_nonce", "signature_verification_failed"})
                 => /\ ~sessions[m.to].authed
                    /\ UNCHANGED <<sessions, ledger, reputation, jobs, granted, inflight>>]_vars

\* C13 witness: a job posted by an authenticated session stands while a
\* non-auth message on a session that has not authenticated is refused
C13_Witness ==
    \E s, t \in Conns, j \in JobIds :
        /\ sessions[s].authed /\ Verified(s) /\ jobs[j].requesterId = sessions[s].agentId
        /\ sessions[t].open /\ ~sessions[t].authed /\ sessions[t].agentId = None
        /\ sent = {Msg("error", t, None, "not_authenticated", 0, FALSE)}

\* C14: the step in which the persistence write of a handshake fails sends
\* db_error_auth and nothing else (no authed), leaves the session not authed
\* with no agent id and with its challenge nonce; after that an auth with
\* that nonce and a verifying signature passes the checks, and when its
\* persistence write succeeds the session is authed and authed is sent.
C14_AuthRollback ==
    /\ [][\A h \in BagToSet(inflight) :
              (h.pc = "auth_db" /\ Resumed(h)) =>
                 IF sessions'[h.conn].dbErrors > sessions[h.conn].dbErrors
                 THEN /\ sent' = {Msg("error", h.conn, None, "db_error_auth", 0, TRUE)}
                      /\ ~sessions'[h.conn].authed
                      /\ sessions'[h.conn].agentId = None
                      /\ sessions'[h.conn].open
                      /\ sessions'[h.conn].nonce = sessions[h.conn].nonce
                 ELSE /\ sent' = {Msg("authed", h.conn, None, h.arg, ledger[h.arg].credits, FALSE)}
                      /\ sessions'[h.conn].authed
                      /\ sessions'[h.conn].agentId = h.arg]_vars
    /\ [](\A s \in Conns, msg \in AuthMsgs :
              (sessions[s].dbErrors > 0 /\ ~sessions[s].authed /\ msg.nonce = sessions[s].nonce
                 /\ msg.agentName # "" /\ verifyAuth(msg))
                 => (sessions[s].open /\ AuthCheck(s, msg) = "ok"))

\* C14 witness: a session whose handshake had failed on persistence is authed
\* by a retry with the same nonce, and authed was sent to it
C14_Witness ==
    \E s \in Conns :
        /\ sessions[s].dbErrors > 0 /\ sessions[s].authed /\ Verified(s)
        /\ Quiescent
        /\ sent = {Msg("authed", s, None, sessions[s].agentId, DEFAULT_STARTING_CREDITS, FALSE)}

\* the job was negotiated to price 70 with 20% upfront on a budget of 100 and
\* awarded once at that price
NegotiatedDeal(j) ==
    /\ jobs[j].budget = 100 /\ jobs[j].acceptedPrice = 70 /\ jobs[j].upfrontPct = 20
    /\ jobs[j].lockedBudget = 70 /\ nAwards = 1
    /\ \E b \in jobs[j].bids : b.bidderId = jobs[j].workerId /\ b.price = 80

\* C15: budget 100, bid 80, counter_offer 70 with 20% upfront, accepted.
\* Right after the award (lock 70, upfront 14, award handler finished):
\* requester credits 986 and locked 56, worker credits 1014.  The review
\* accept that then completes the submitted job leaves requester 930 /
\* locked 0 and worker 1070 / locked 0, and job_completed.paid is 70.
C15_NegotiatedUpfront ==
    /\ [](\A j \in JobIds :
              LET r == jobs[j].requesterId
                  w == jobs[j].workerId
              IN
              (Quiescent /\ NegotiatedDeal(j) /\ jobs[j].status = "awarded" /\ settled[j] = 0)
                 => /\ jobs[j].paidUpfront = 14
                    /\ ledger[r].credits = 986 /\ ledger[r].locked = 56
                    /\ ledger[w].credits = 1014)
    /\ [][\A j \in JobIds :
              LET r == jobs[j].requesterId
                  w == jobs[j].workerId
              IN
              (NegotiatedDeal(j) /\ jobs[j].paidUpfront = 14 /\ settled[j] = 0
                 /\ jobs[j].status = "in_review" /\ jobs'[j].status = "completed")
                 => /\ ledger'[r].credits = 930 /\ ledger'[r].locked = 0
                    /\ ledger'[w].credits = 1070 /\ ledger'[w].locked = 0]_vars
    /\ [][\A h \in BagToSet(inflight) :
              (h.pc = "complete_ev" /\ Resumed(h) /\ NegotiatedDeal(h.job))
                 => sent' = {Msg("job_completed", "all", h.job, jobs[h.job].workerId, 70, FALSE)}]_vars

\* C15 witness: the negotiated job is completed and its job_completed{paid: 70}
\* was the last broadcast
C15_Witness ==
    \E j \in JobIds :
        /\ Quiescent /\ NegotiatedDeal(j) /\ jobs[j].status = "completed"
        /\ jobs[j].paidUpfront = 14
        /\ ledger[jobs[j].workerId].credits = 1070 /\ ledger[jobs[j].requesterId].credits = 930
        /\ sent = {Msg("job_completed", "all", j, jobs[j].workerId, 70, FALSE)}

\* the job of budget 25 was awarded directly (no accepted negotiation) to a
\* worker that bid 10
DirectDeal(j) ==
    /\ jobs[j].budget = 25 /\ jobs[j].acceptedPrice = 0 /\ nAwards = 1
    /\ \E b \in jobs[j].bids : b.bidderId = jobs[j].workerId /\ b.price = 10

\* C16: post_job budget 25, bid 10, award, submit, review accept: requester
\* credits 975, worker credits 1025, locked 0 for both, job_completed.paid 25,
\* worker completed = 1.
C16_DirectSettlement ==
    /\ [](\A j \in JobIds :
              LET r == jobs[j].requesterId
                  w == jobs[j].workerId
              IN
              (Quiescent /\ DirectDeal(j) /\ jobs[j].status = "completed") =>
                 /\ ledger[r].credits = 975 /\ ledger[r].locked = 0
                 /\ ledger[w].credits = 1025 /\ ledger[w].locked = 0
                 /\ reputation[w] = [completed |-> 1, failed |-> 0])
    /\ [][\A h \in BagToSet(inflight) :
              (h.pc = "complete_ev" /\ Resumed(h) /\ DirectDeal(h.job))
                 => sent' = {Msg("job_completed", "all", h.job, jobs[h.job].workerId, 25, FALSE)}]_vars

\* C16 witness: the directly awarded job of budget 25 is completed
C16_Witness ==
    \E j \in JobIds :
        /\ Quiescent /\ DirectDeal(j) /\ jobs[j].status = "completed"
        /\ jobs[j].lockedBudget = 25
        /\ sent = {Msg("job_completed", "all", j, jobs[j].workerId, 25, FALSE)}

\* C17: a step that fails a contract (B = lockedBudget, U = paidUpfront,
\* S = lockedStake) releases B - U from the requester's locked, releases S
\* from the worker's locked and moves slash = min(S, ceil(S * 50%)) credits
\* from the worker to the requester; U is not returned: when this is the
\* first settlement of the job's first award, the worker's credits are those
\* just before the award + U - slash and the requester's those - U + slash.
C17_FailureSettlement ==
    [][\A j \in JobIds :
          LET r == jobs[j].requesterId
              w == jobs[j].workerId
              B == jobs[j].lockedBudget
              U == jobs[j].paidUpfront
              S == jobs[j].lockedStake
              slash == Min(S, CeilDiv(S * SlashPctNum, 100))
          IN
          (Contract(j) /\ jobs'[j].status = "failed" /\ w \in Agents) =>
             /\ ledger'[r].locked = ledger[r].locked - Max(0, B - U)
             /\ ledger'[w].locked = ledger[w].locked - S
             /\ ledger'[w].credits = ledger[w].credits - slash
             /\ ledger'[r].credits = ledger[r].credits + slash
             /\ jobs'[j].paidUpfront = U
             /\ (settled[j] = 0 /\ nAwards = 1)
                   => /\ ledger'[w].credits = atAward[j].worker + U - slash
                      /\ ledger'[r].credits = atAward[j].requester - U + slash]_vars

\* C17 witness: a contract that had paid upfront was failed with a slash
C17_Witness ==
    \E j \in JobIds :
        /\ jobs[j].status = "failed" /\ jobs[j].paidUpfront > 0 /\ jobs[j].lockedStake > 0
        /\ settled[j] = 1 /\ nAwards = 1
        /\ ledger[jobs[j].workerId].credits = atAward[j].worker + jobs[j].paidUpfront - 4

====
